---- MODULE Spec2Model ----
(***************************************************************************)
(* Streaming coordinator of the diagram chat (ChatMessageDisplay).         *)
(*                                                                         *)
(* A payload (the xml string of a display_diagram tool input) is a         *)
(* sequence of mxCell elements.  Every element carries its id, its parent  *)
(* and the lexical form the text has:                                      *)
(*   "ok"      complete, well-formed, already escaped                      *)
(*   "raw"     complete, with unescaped special characters in its label    *)
(*   "partial" an in-progress trailing element (the stream was cut)        *)
(*   "mal"     balanced tags, but not parsable even after legalization     *)
(*   "bad"     well-formed, with a structural defect that has no repair    *)
(* A document (chartXML) is the sequence of nodes below root; the empty    *)
(* sequence is the empty string.                                           *)
(***************************************************************************)
EXTENDS Integers, Sequences, FiniteSets, TLC

\* ------------------------------------------------------------------ bounds
\* Number of tool call ids the producer uses.
MaxCalls == 1
\* Call counters saturate at this value.
MaxCount == 2
\* Timers of unmounted display instances that are followed.
MaxOrphans == 1
\* Longest input.operations array handed to getCompleteOperations.
MaxOps == 2
\* Longest message list of a conversation.
MaxMessages == 3
\* Session ids handed out by new chats.
MaxSessions == 2
\* Longest operation batch handed to applyDiagramOperations.
MaxBatch == 3
\* Longest fragment handed to replaceNodes.
MaxFragment == 3
\* Longest message list handed to sendAutomaticallyWhen on its own.
MaxTurns == 2
\* Most parts of one message of such a list.
MaxParts == 2
\* Longest conversation a regeneration or an edit starts from.
MaxHistory == 4
\* Providers of a model configuration.
MaxProviders == 2
\* Models of a model configuration.
MaxModels == 2

\* ------------------------------------------------ program constants
MAX_AUTO_RETRY_COUNT == 3

MAX_CONTINUATION_RETRY_COUNT == 2

ToolCallIds == 1..MaxCalls

\* The toolCallId of the edit_diagram part.
EditCallIds == {MaxCalls + 1}

\* ------------------------------------------------------------ data model
Cell(i, p, f) == [id |-> i, parent |-> p, form |-> f]

\* Variant: the synthesized wrapper lacks the default layer.
DefaultBase_NoLayer == << Cell("0", "", "ok") >>

\* The two sentinel nodes of the wrapper synthesized for an empty chartXML.
DefaultBase == << Cell("0", "", "ok"), Cell("1", "0", "ok") >>

\* Payloads the producer delivers (input.xml is never empty: the effect
\* requires input?.xml to be truthy).
Payloads ==
    { << Cell("2", "1", "raw") >>,
      << Cell("2", "1", "raw"), Cell("3", "9", "partial") >>,
      << Cell("2", "1", "raw"), Cell("3", "9", "ok") >>,
      << Cell("2", "1", "partial") >>,
      << Cell("2", "1", "mal") >>,
      << Cell("3", "1", "bad") >> }

PartStates == {"input-streaming", "input-available", "output-available", "output-error"}

\* --------------------------------------------------- the xml utilities
\* Fragment Extractor: the longest prefix of complete elements.
RECURSIVE CompleteLen(_, _)
CompleteLen(xml, k) ==
    IF k < Len(xml) /\ xml[k + 1].form # "partial"
    THEN CompleteLen(xml, k + 1)
    ELSE k

\* Variant: the string is returned as it is.
extractCompleteMxCells_Whole(xml) == xml

extractCompleteMxCells(xml) == SubSeq(xml, 1, CompleteLen(xml, 0))

\* Legalizer: escapes label text, leaves ids, parents and structure alone.
convertToLegalXml(xml) ==
    [i \in DOMAIN xml |->
        IF xml[i].form = "raw" THEN [xml[i] EXCEPT !.form = "ok"] ELSE xml[i]]

\* DOMParser on <root>fragment</root>: is there a parsererror element?
HasParseError(frag) == \E i \in DOMAIN frag : frag[i].form \in {"partial", "mal"}

\* Variant: a replaced node moves to the end.
MergeNode_MovesToEnd(base, n) == Append(SelectSeq(base, LAMBDA b : b.id # n.id), n)

\* Node Merger: same id replaces in place, unseen ids are appended.
MergeNode(base, n) ==
    IF \E j \in DOMAIN base : base[j].id = n.id
    THEN [j \in DOMAIN base |-> IF base[j].id = n.id THEN n ELSE base[j]]
    ELSE Append(base, n)

RECURSIVE replaceNodes(_, _)
replaceNodes(base, frag) ==
    IF frag = << >> THEN base
    ELSE replaceNodes(MergeNode(base, Head(frag)), Tail(frag))

\* Structural Validator & Repairer.
Ids(doc) == {doc[i].id : i \in DOMAIN doc}

RECURSIVE DropEarlierDuplicates(_)
DropEarlierDuplicates(doc) ==
    IF doc = << >> THEN << >>
    ELSE IF \E j \in 2..Len(doc) : doc[j].id = doc[1].id
         THEN DropEarlierDuplicates(Tail(doc))
         ELSE << Head(doc) >> \o DropEarlierDuplicates(Tail(doc))

\* Variant: the orphan is moved below the root sentinel.
Reparent_ToRoot(doc) ==
    [i \in DOMAIN doc |->
        IF doc[i].id \notin {"0", "1"} /\ doc[i].parent \notin Ids(doc)
        THEN [doc[i] EXCEPT !.parent = "0"]
        ELSE doc[i]]

Reparent(doc) ==
    [i \in DOMAIN doc |->
        IF doc[i].id \notin {"0", "1"} /\ doc[i].parent \notin Ids(doc)
        THEN [doc[i] EXCEPT !.parent = "1"]
        ELSE doc[i]]

Repair(doc) == Reparent(DropEarlierDuplicates(doc))

\* fixed = << >> stands for "no fixed document offered".
validateAndFixXml(doc) ==
    IF \E i \in DOMAIN doc : doc[i].form = "bad"
    THEN [valid |-> FALSE, fixed |-> << >>]
    ELSE [valid |-> TRUE,
          fixed |-> IF Repair(doc) = doc THEN << >> ELSE Repair(doc)]

\* ------------------------------------------------- edit operations
\* A value of an operation's field with its typeof.
Str(v) == [t |-> "string", v |-> v]

Undefined == [t |-> "undefined", v |-> ""]

NoXml == [t |-> "undefined", v |-> Cell("", "", "absent")]

\* An element of input.operations as the stream delivers it; nil: null.
Op(kind, cellId, newXml) ==
    [nil |-> FALSE, operation |-> kind, cell_id |-> cellId, new_xml |-> newXml]

NullOp == [nil |-> TRUE, operation |-> Undefined, cell_id |-> Undefined, new_xml |-> NoXml]

IsCompleteOperation(op) ==
    /\ ~op.nil
    /\ op.operation.t = "string"
    /\ op.operation.v \in {"update", "add", "delete"}
    /\ op.cell_id.t = "string"
    /\ op.cell_id.v # ""
    /\ (op.operation.v = "delete" \/ op.new_xml.t = "string")

\* operations: [isArray, items]; isArray is FALSE for undefined or a non-array.
getCompleteOperations(operations) ==
    IF ~operations.isArray THEN << >>
    ELSE SelectSeq(operations.items, IsCompleteOperation)

\* Operation Applier: one operation on the node list acc.doc.
RemoveNode(doc, id) == SelectSeq(doc, LAMBDA n : n.id # id)

\* Variant: the node is appended whether or not the id exists.
Upsert_Appends(doc, id, n) == Append(doc, n)

Upsert(doc, id, n) ==
    IF \E j \in DOMAIN doc : doc[j].id = id
    THEN [j \in DOMAIN doc |-> IF doc[j].id = id THEN n ELSE doc[j]]
    ELSE Append(doc, n)

\* Variant: an operation whose new_xml does not parse is skipped without an
\* error entry.
ApplyOperation_SilentSkip(acc, op) ==
    IF op.operation.v = "delete"
    THEN IF op.cell_id.v \in Ids(acc.result)
         THEN [acc EXCEPT !.result = RemoveNode(@, op.cell_id.v)]
         ELSE [acc EXCEPT !.errors = Append(@, [cell_id |-> op.cell_id.v,
                                                reason |-> "not-found"])]
    ELSE IF op.new_xml.t # "string" \/ op.new_xml.v.form \in {"mal", "partial"}
         THEN acc
         ELSE [acc EXCEPT !.result = Upsert(@, op.cell_id.v, op.new_xml.v)]

ApplyOperation(acc, op) ==
    IF op.operation.v = "delete"
    THEN IF op.cell_id.v \in Ids(acc.result)
         THEN [acc EXCEPT !.result = RemoveNode(@, op.cell_id.v)]
         ELSE [acc EXCEPT !.errors = Append(@, [cell_id |-> op.cell_id.v,
                                                reason |-> "not-found"])]
    ELSE IF op.new_xml.t # "string" \/ op.new_xml.v.form \in {"mal", "partial"}
         THEN [acc EXCEPT !.errors = Append(@, [cell_id |-> op.cell_id.v,
                                                reason |-> "parse"])]
         ELSE [acc EXCEPT !.result = Upsert(@, op.cell_id.v, op.new_xml.v)]

RECURSIVE ApplyAll(_, _)
ApplyAll(acc, ops) ==
    IF ops = << >> THEN acc ELSE ApplyAll(ApplyOperation(acc, Head(ops)), Tail(ops))

applyDiagramOperations(base, ops) == ApplyAll([result |-> base, errors |-> << >>], ops)

\* ------------------------------------------------- handleDisplayChart
\* The result of one call: the new previousXML.current, whether onDisplayChart
\* (loadDiagram) was called and with which document, the toast shown, whether
\* validateAndFixXml ran, and the way the call ended.
Skipped(prev, outcome, toast) ==
    [previousXML |-> prev, loaded |-> FALSE, doc |-> << >>, toast |-> toast,
     validated |-> FALSE, outcome |-> outcome]

\* Variant: the parse error is reported on previews too.
ParseErrorToast_Always(showToast) == "malformedXml"

ParseErrorToast(showToast) == IF showToast THEN "malformedXml" ELSE "none"

CatchToast(showToast) == IF showToast THEN "failedToProcess" ELSE "none"

\* Variant: the preview runs the validator and loads the repaired document.
PreviewRender_Repairs(replacedXML, convertedXml) ==
    [previousXML |-> convertedXml, loaded |-> TRUE, doc |-> Repair(replacedXML),
     toast |-> "none", validated |-> TRUE, outcome |-> "preview"]

PreviewRender(replacedXML, convertedXml) ==
    [previousXML |-> convertedXml, loaded |-> TRUE, doc |-> replacedXML,
     toast |-> "none", validated |-> FALSE, outcome |-> "preview"]

\* Variant: the document is loaded whatever validateAndFixXml reports.
FinalValidation_IgnoresVerdict(replacedXML, convertedXml, prev) ==
    LET validation == validateAndFixXml(replacedXML)
    IN  [previousXML |-> convertedXml, loaded |-> TRUE,
         doc |-> IF validation.fixed # << >> THEN validation.fixed ELSE replacedXML,
         toast |-> "none", validated |-> TRUE, outcome |-> "committed"]

FinalValidation(replacedXML, convertedXml, prev) ==
    LET validation == validateAndFixXml(replacedXML)
    IN  IF validation.valid
        THEN [previousXML |-> convertedXml, loaded |-> TRUE,
              doc |-> IF validation.fixed # << >> THEN validation.fixed
                      ELSE replacedXML,
              toast |-> "none", validated |-> TRUE, outcome |-> "committed"]
        ELSE [previousXML |-> prev, loaded |-> FALSE, doc |-> << >>,
              toast |-> "validationFailed", validated |-> TRUE,
              outcome |-> "invalid"]

\* Variant: no DOMParser check before replaceNodes.
handleDisplayChart_NoParseCheck(xml, showToast, chart, prev, throws) ==
    LET currentXml   == IF showToast THEN xml ELSE extractCompleteMxCells(xml)
        convertedXml == convertToLegalXml(currentXml)
        baseXML      == IF chart # << >> THEN chart ELSE DefaultBase
        replacedXML  == replaceNodes(baseXML, convertedXml)
    IN  IF ~showToast /\ currentXml = << >>
        THEN Skipped(prev, "nocells", "none")
        ELSE IF convertedXml = prev
        THEN Skipped(prev, "unchanged", "none")
        ELSE IF throws
        THEN Skipped(prev, "threw", CatchToast(showToast))
        ELSE IF ~showToast
        THEN PreviewRender(replacedXML, convertedXml)
        ELSE FinalValidation(replacedXML, convertedXml, prev)

\* chart is the chartXML the callback closed over, prev is previousXML.current,
\* throws tells whether replaceNodes throws on this call.
handleDisplayChart(xml, showToast, chart, prev, throws) ==
    LET currentXml   == IF showToast THEN xml ELSE extractCompleteMxCells(xml)
        convertedXml == convertToLegalXml(currentXml)
        baseXML      == IF chart # << >> THEN chart ELSE DefaultBase
        replacedXML  == replaceNodes(baseXML, convertedXml)
    IN  IF ~showToast /\ currentXml = << >>
        THEN Skipped(prev, "nocells", "none")
        ELSE IF convertedXml = prev
        THEN Skipped(prev, "unchanged", "none")
        ELSE IF HasParseError(convertedXml)
        THEN Skipped(prev, "parseerror", ParseErrorToast(showToast))
        ELSE IF throws
        THEN Skipped(prev, "threw", CatchToast(showToast))
        ELSE IF ~showToast
        THEN PreviewRender(replacedXML, convertedXml)
        ELSE FinalValidation(replacedXML, convertedXml, prev)

\* ------------------------------------------------------------- state
VARIABLES
    chartXML,            \* the diagram document of the diagram context
    previousXML,         \* previousXML.current
    processedToolCalls,  \* processedToolCallsRef.current
    lastProcessedXmlRef, \* toolCallId -> last previewed xml (<< >>: no entry)
    pendingXmlRef,       \* pendingXmlRef.current (<< >>: null)
    debounceTimeoutRef,  \* handle of the timer the ref holds (0: null)
    timers,              \* the timeouts that are set and have not fired
    committedXML,        \* the last document loaded by a validated final call
    finalCalls,          \* toolCallId -> handleDisplayChart(xml, true) calls since the reset
    last,                \* what the latest step did
    editDiagramOriginalXmlRef, \* toolCallId -> captured original (<< >>: no entry)
    pendingEditRef,      \* pendingEditRef.current
    editDebounceTimeoutRef, \* handle of the edit timer the ref holds (0: null)
    editTimers,          \* the edit timeouts that are set and have not fired
    lastProcessedOpCount, \* the "-opCount" entries of lastProcessedXmlRef (-1: no entry)
    orphanTimers,        \* pending timeouts of display instances that were unmounted
    inputOperations,     \* the argument of a getCompleteOperations call
    filtered,            \* its result, once the call is made
    status,              \* useChat status
    messages,            \* useChat messages: [role, tools (states of the tool parts)]
    xmlSnapshots,        \* xmlSnapshotsRef.current: message index -> document
    sessionId,           \* the sessionId state of ChatPanel
    submitting,          \* the onFormSubmit call that awaits onFetchChart
    autoRetryCountRef,
    continuationRetryCountRef,
    partialXmlRef,       \* partialXmlRef.current.length > 0
    diagramHistory,      \* the diagram history is not empty
    validationStates,    \* validationStates has an entry
    localStorageDebounceRef, \* handle of the last save timer set (0: null)
    saveTimers,          \* the save timeouts that are set and have not fired
    saveCleanup,         \* the last run of the auto-save effect returned its cleanup
    justLoadedSessionRef,
    hasRestoredRef,
    sessionIsAvailable,  \* sessionManager.isAvailable
    currentSessionId,    \* sessionManager.currentSessionId (0: null)
    callArgs,            \* the arguments of a call of a pure function
    callResult           \* what the call returned, once it is made

editVars == << editDiagramOriginalXmlRef, pendingEditRef, editDebounceTimeoutRef,
               editTimers, lastProcessedOpCount >>

vars == << chartXML, previousXML, processedToolCalls, lastProcessedXmlRef,
           pendingXmlRef, debounceTimeoutRef, timers, committedXML, finalCalls,
           last >>

NoCall == Skipped(<< >>, "none", "none")

\* What a step did: the operation, the branch of the effect it took, the
\* handleDisplayChart call it made (hdc), the payload it stored or passed to
\* that call (arg) and the result of the call.
Step(op, branch, hdc, arg, r) ==
    [op |-> op, branch |-> branch, hdc |-> hdc, arg |-> arg,
     loaded |-> r.loaded, toast |-> r.toast, validated |-> r.validated,
     outcome |-> r.outcome]

Idle(op, branch) == Step(op, branch, "none", << >>, NoCall)

NoPendingEdit == [operations |-> << >>, toolCallId |-> 0]

EditInit ==
    /\ editDiagramOriginalXmlRef = [i \in EditCallIds |-> << >>]
    /\ pendingEditRef = NoPendingEdit
    /\ editDebounceTimeoutRef = 0
    /\ editTimers = {}
    /\ lastProcessedOpCount = [i \in EditCallIds |-> -1]

\* Operations, as the caller passes them: an array, or undefined (isArray
\* FALSE).
Operations(items) == [isArray |-> TRUE, items |-> items]

NoOperations == [isArray |-> FALSE, items |-> << >>]

NotFiltered == [done |-> FALSE, ops |-> << >>]

retryVars == << autoRetryCountRef, continuationRetryCountRef, partialXmlRef >>

chatVars == << status, messages, xmlSnapshots, sessionId, submitting, diagramHistory,
               validationStates >>

NotSubmitting == [active |-> FALSE, index |-> 0]

\* No snapshot: the empty map.
NoSnapshots == [k \in {} |-> << >>]

PanelInit ==
    /\ status = "ready"
    /\ messages = << >>
    /\ xmlSnapshots = NoSnapshots
    /\ sessionId = 1
    /\ submitting = NotSubmitting
    /\ autoRetryCountRef = 0
    /\ continuationRetryCountRef = 0
    /\ partialXmlRef = FALSE
    /\ diagramHistory = FALSE
    /\ validationStates = FALSE

saveVars == << localStorageDebounceRef, saveTimers, saveCleanup, justLoadedSessionRef,
              hasRestoredRef, sessionIsAvailable, currentSessionId >>

SaveInit ==
    /\ localStorageDebounceRef = 0
    /\ saveTimers = {}
    /\ saveCleanup = FALSE
    /\ justLoadedSessionRef = FALSE
    /\ hasRestoredRef = FALSE
    /\ sessionIsAvailable = TRUE
    /\ currentSessionId = 0

NoArgs == [fn |-> "none"]

NotCalled == [done |-> FALSE]

callVars == << callArgs, callResult >>

\* The state of what lies outside the display: no call in progress.
OutsideInit ==
    /\ inputOperations = NoOperations
    /\ filtered = NotFiltered
    /\ PanelInit
    /\ SaveInit
    /\ callArgs = NoArgs
    /\ callResult = NotCalled

outside == << inputOperations, filtered, chatVars, retryVars, saveVars, callVars >>

DisplayInit ==
    /\ chartXML = << >>
    /\ previousXML = << >>
    /\ processedToolCalls = {}
    /\ lastProcessedXmlRef = [i \in ToolCallIds |-> << >>]
    /\ pendingXmlRef = << >>
    /\ debounceTimeoutRef = 0
    /\ timers = {}
    /\ committedXML = << >>
    /\ finalCalls = [i \in ToolCallIds |-> 0]
    /\ last = Idle("init", "none")

Init ==
    /\ DisplayInit
    /\ EditInit
    /\ orphanTimers = {}
    /\ OutsideInit

\* loadDiagram(xml, true) of the diagram context: the document becomes xml.
Load(r) == chartXML' = IF r.loaded THEN r.doc ELSE chartXML

FreeHandle == CHOOSE h \in 1..(Cardinality(timers) + 1) : \A t \in timers : t.h # h

\* Variant: setTimeout without the guard on debounceTimeoutRef.
ScheduleTimer_Unguarded(id) ==
    /\ timers' = timers \cup {[h |-> FreeHandle, id |-> id, chart |-> chartXML]}
    /\ debounceTimeoutRef' = FreeHandle

\* setTimeout under the guard of debounceTimeoutRef; the callback closes over
\* the toolCallId and over handleDisplayChart, hence over chartXML.
ScheduleTimer(id) ==
    IF debounceTimeoutRef = 0
    THEN /\ timers' = timers \cup {[h |-> FreeHandle, id |-> id, chart |-> chartXML]}
         /\ debounceTimeoutRef' = FreeHandle
    ELSE UNCHANGED << timers, debounceTimeoutRef >>

\* clearTimeout on the final branch.
CancelTimer ==
    IF debounceTimeoutRef # 0
    THEN /\ timers' = {t \in timers : t.h # debounceTimeoutRef}
         /\ debounceTimeoutRef' = 0
         /\ pendingXmlRef' = << >>
    ELSE UNCHANGED << timers, debounceTimeoutRef, pendingXmlRef >>

\* Variant: the id is not added to processedToolCalls.
MarkProcessed_Forgets(id) == processedToolCalls

\* processedToolCalls.current.add(toolCallId)
MarkProcessed(id) == processedToolCalls \cup {id}

Bump(n) == IF n < MaxCount THEN n + 1 ELSE n

\* The message effect on a display_diagram part of the last message.
ObserveDisplayDiagram(id, st, xml, throws) ==
    IF lastProcessedXmlRef[id] = xml
    THEN \* unchanged since the last processing: return
         /\ last' = Idle("effect", "none")
         /\ UNCHANGED << chartXML, previousXML, processedToolCalls,
                         lastProcessedXmlRef, pendingXmlRef, debounceTimeoutRef,
                         timers, committedXML, finalCalls >>
    ELSE IF st \in {"input-streaming", "input-available"}
    THEN /\ pendingXmlRef' = xml
         /\ ScheduleTimer(id)
         /\ last' = Step("effect", IF debounceTimeoutRef = 0 THEN "scheduled" ELSE "coalesced",
                          "none", xml, NoCall)
         /\ UNCHANGED << chartXML, previousXML, processedToolCalls,
                         lastProcessedXmlRef, committedXML, finalCalls >>
    ELSE IF st = "output-available" /\ id \notin processedToolCalls
    THEN \E r \in {handleDisplayChart(xml, TRUE, chartXML, previousXML, throws)} :
             /\ CancelTimer
             /\ previousXML' = r.previousXML
             /\ Load(r)
             /\ processedToolCalls' = MarkProcessed(id)
             /\ lastProcessedXmlRef' = [lastProcessedXmlRef EXCEPT ![id] = << >>]
             /\ committedXML' = IF r.loaded THEN r.doc ELSE committedXML
             /\ finalCalls' = [finalCalls EXCEPT ![id] = Bump(@)]
             /\ last' = Step("effect", "final", "final", xml, r)
    ELSE /\ last' = Idle("effect", IF st = "output-available" THEN "processed" ELSE "none")
         /\ UNCHANGED << chartXML, previousXML, processedToolCalls,
                         lastProcessedXmlRef, pendingXmlRef, debounceTimeoutRef,
                         timers, committedXML, finalCalls >>

\* replaceNodes is reached on the final branch only.
Observe ==
    \E id \in ToolCallIds, st \in PartStates, xml \in Payloads :
        \E throws \in (IF st = "output-available" THEN BOOLEAN ELSE {FALSE}) :
            /\ ObserveDisplayDiagram(id, st, xml, throws)
            /\ UNCHANGED << editVars, orphanTimers, outside >>

\* The debounce callback of timer t.
DebounceCallback(t, throws) ==
    \E pendingXml \in {pendingXmlRef} :
    \E r \in {handleDisplayChart(pendingXml, FALSE, t.chart, previousXML, throws)} :
        /\ timers' = timers \ {t}
        /\ debounceTimeoutRef' = 0
        /\ pendingXmlRef' = << >>
        /\ IF pendingXml # << >>
           THEN /\ previousXML' = r.previousXML
                /\ Load(r)
                /\ lastProcessedXmlRef' = [lastProcessedXmlRef EXCEPT ![t.id] = pendingXml]
                /\ last' = Step("timer", "none", "preview", pendingXml, r)
           ELSE /\ UNCHANGED << previousXML, chartXML, lastProcessedXmlRef >>
                /\ last' = Idle("timer", "none")
        /\ UNCHANGED << processedToolCalls, committedXML, finalCalls >>

TimerFires ==
    \E t \in timers, throws \in BOOLEAN :
        DebounceCallback(t, throws) /\ UNCHANGED << editVars, orphanTimers, outside >>

\* The reset effect: the message list became empty.
ResetOnEmptyMessages ==
    /\ previousXML' = << >>
    /\ lastProcessedXmlRef' = [i \in ToolCallIds |-> << >>]
    /\ processedToolCalls' = {}
    /\ finalCalls' = [i \in ToolCallIds |-> 0]
    /\ lastProcessedOpCount' = [i \in EditCallIds |-> -1]
    /\ last' = Idle("reset", "none")
    /\ UNCHANGED << chartXML, pendingXmlRef, debounceTimeoutRef, timers, committedXML,
                    editDiagramOriginalXmlRef, pendingEditRef, editDebounceTimeoutRef,
                    editTimers, orphanTimers, outside >>

Next == Observe \/ TimerFires \/ ResetOnEmptyMessages

allVars == << vars, editVars, orphanTimers, outside >>

Spec == Init /\ [][Next]_allVars

\* ------------------------------------------- the edit_diagram branch
\* input.operations as the producer delivers it.
OpAdd4 == Op(Str("add"), Str("4"), Str(Cell("4", "9", "ok")))
OpDelete2 == Op(Str("delete"), Str("2"), NoXml)
OpInProgress == Op(Str("update"), Str("3"), NoXml)
\* An add whose new_xml string is still being streamed.
OpAdd4Streaming == Op(Str("add"), Str("4"), Str(Cell("4", "9", "partial")))

EditInputs ==
    { Operations(<< OpInProgress >>),
      Operations(<< OpAdd4Streaming >>),
      Operations(<< OpAdd4, OpInProgress >>),
      Operations(<< OpAdd4, OpDelete2 >>) }

FreeEditHandle ==
    CHOOSE h \in 1..(Cardinality(editTimers) + 1) : \A t \in editTimers : t.h # h

\* Variant: every increment stores the current document.
CaptureOriginal_Overwrites(ref, id, chart) == [ref EXCEPT ![id] = chart]

\* if (!editDiagramOriginalXmlRef.current.has(toolCallId)) set(toolCallId, chartXML)
CaptureOriginal(ref, id, chart) ==
    IF ref[id] # << >> THEN ref ELSE [ref EXCEPT ![id] = chart]

\* The message effect on an edit_diagram part of the last message.
ObserveEditDiagram(id, st, operations) ==
    LET completeOps == getCompleteOperations(operations)
        captured    == editDiagramOriginalXmlRef[id] # << >>
    IN  IF completeOps = << >> \/ (~captured /\ chartXML = << >>)
        THEN /\ last' = Idle("editeffect",
                             IF completeOps = << >> THEN "incomplete" ELSE "nochart")
             /\ UNCHANGED << editVars, processedToolCalls >>
        ELSE /\ editDiagramOriginalXmlRef' =
                    CaptureOriginal(editDiagramOriginalXmlRef, id, chartXML)
             /\ IF lastProcessedOpCount[id] = Len(completeOps)
                THEN /\ last' = Step("editeffect", "samecount", "none", completeOps, NoCall)
                     /\ UNCHANGED << pendingEditRef, editDebounceTimeoutRef, editTimers,
                                     lastProcessedOpCount, processedToolCalls >>
                ELSE IF st \in {"input-streaming", "input-available"}
                THEN /\ pendingEditRef' = [operations |-> completeOps, toolCallId |-> id]
                     /\ IF editDebounceTimeoutRef = 0
                        THEN /\ editTimers' = editTimers \cup
                                    {[h |-> FreeEditHandle, chart |-> chartXML]}
                             /\ editDebounceTimeoutRef' = FreeEditHandle
                        ELSE UNCHANGED << editTimers, editDebounceTimeoutRef >>
                     /\ last' = Idle("editeffect",
                                     IF editDebounceTimeoutRef = 0 THEN "scheduled"
                                     ELSE "coalesced")
                     /\ UNCHANGED << lastProcessedOpCount, processedToolCalls >>
                ELSE IF st = "output-available" /\ id \notin processedToolCalls
                THEN /\ editTimers' = {t \in editTimers : t.h # editDebounceTimeoutRef}
                     /\ editDebounceTimeoutRef' = 0
                     /\ lastProcessedOpCount' = [lastProcessedOpCount EXCEPT ![id] = -1]
                     /\ processedToolCalls' = MarkProcessed(id)
                     /\ last' = Idle("editeffect", "final")
                     /\ UNCHANGED pendingEditRef
                ELSE /\ last' = Idle("editeffect", "none")
                     /\ UNCHANGED << pendingEditRef, editDebounceTimeoutRef, editTimers,
                                     lastProcessedOpCount, processedToolCalls >>

ObserveEdit ==
    \E id \in EditCallIds, st \in PartStates, operations \in EditInputs :
        /\ ObserveEditDiagram(id, st, operations)
        /\ UNCHANGED << outside, orphanTimers, chartXML, previousXML, lastProcessedXmlRef, pendingXmlRef,
                        debounceTimeoutRef, timers, committedXML, finalCalls >>

\* The debounce callback of edit timer t; applyThrows: applyDiagramOperations
\* throws, throws: replaceNodes throws.
EditDebounceCallback(t, applyThrows, throws) ==
    \E pending \in {pendingEditRef} :
    \E origXml \in {IF pending = NoPendingEdit THEN << >>
                     ELSE editDiagramOriginalXmlRef[pending.toolCallId]} :
        /\ editTimers' = editTimers \ {t}
        /\ editDebounceTimeoutRef' = 0
        /\ pendingEditRef' = NoPendingEdit
        /\ UNCHANGED editDiagramOriginalXmlRef
        /\ IF origXml = << >> \/ applyThrows
           THEN /\ last' = Idle("edittimer", IF origXml = << >> THEN "none" ELSE "threw")
                /\ UNCHANGED << chartXML, previousXML, lastProcessedOpCount >>
           ELSE \E editedXml \in {applyDiagramOperations(origXml, pending.operations).result} :
                \E r \in {handleDisplayChart(editedXml, FALSE, t.chart, previousXML, throws)} :
                    /\ previousXML' = r.previousXML
                    /\ Load(r)
                    /\ lastProcessedOpCount' =
                           [lastProcessedOpCount EXCEPT ![pending.toolCallId] =
                               Len(pending.operations)]
                    /\ last' = Step("edittimer", "none", "preview", editedXml, r)

EditTimerFires ==
    \E t \in editTimers, applyThrows \in BOOLEAN, throws \in BOOLEAN :
        /\ EditDebounceCallback(t, applyThrows, throws)
        /\ UNCHANGED << outside, orphanTimers, processedToolCalls, lastProcessedXmlRef, pendingXmlRef,
                        debounceTimeoutRef, timers, committedXML, finalCalls >>

\* The display_diagram parts that build the document the edits work on.
SeedPayloads == { << Cell("2", "1", "raw"), Cell("3", "9", "ok") >> }

ObserveSeed ==
    \E id \in ToolCallIds, st \in {"input-available", "output-available"},
       xml \in SeedPayloads :
        /\ ObserveDisplayDiagram(id, st, xml, FALSE)
        /\ UNCHANGED << editVars, orphanTimers, outside >>

NextEdit ==
    ObserveSeed \/ TimerFires \/ ResetOnEmptyMessages \/ ObserveEdit \/ EditTimerFires

SpecEdit == Init /\ [][NextEdit]_allVars

\* ------------------------------------- unmount and remount of the display
\* Variant: the set of processed ids is a ref of the display and starts empty
\* with every instance.
Remount_OwnProcessedSet ==
    /\ Cardinality(orphanTimers) + Cardinality(timers) <= MaxOrphans
    /\ orphanTimers' = orphanTimers \cup
           {[chart |-> t.chart, pending |-> pendingXmlRef, prev |-> previousXML] :
               t \in timers}
    /\ timers' = {}
    /\ previousXML' = << >>
    /\ lastProcessedXmlRef' = [i \in ToolCallIds |-> << >>]
    /\ lastProcessedOpCount' = [i \in EditCallIds |-> -1]
    /\ pendingXmlRef' = << >>
    /\ debounceTimeoutRef' = 0
    /\ pendingEditRef' = NoPendingEdit
    /\ editDebounceTimeoutRef' = 0
    /\ processedToolCalls' = {}
    /\ last' = Idle("remount", "none")
    /\ UNCHANGED << chartXML, committedXML, finalCalls,
                    editDiagramOriginalXmlRef, editTimers, outside >>

\* ChatPanel renders the collapsed view and later the display again: the new
\* instance has fresh refs, processedToolCallsRef and editDiagramOriginalXmlRef
\* are ChatPanel's; a timeout of the old instance stays set and keeps the refs
\* and the handleDisplayChart of that instance.
Remount ==
    /\ Cardinality(orphanTimers) + Cardinality(timers) <= MaxOrphans
    /\ orphanTimers' = orphanTimers \cup
           {[chart |-> t.chart, pending |-> pendingXmlRef, prev |-> previousXML] :
               t \in timers}
    /\ timers' = {}
    /\ previousXML' = << >>
    /\ lastProcessedXmlRef' = [i \in ToolCallIds |-> << >>]
    /\ lastProcessedOpCount' = [i \in EditCallIds |-> -1]
    /\ pendingXmlRef' = << >>
    /\ debounceTimeoutRef' = 0
    /\ pendingEditRef' = NoPendingEdit
    /\ editDebounceTimeoutRef' = 0
    /\ last' = Idle("remount", "none")
    /\ UNCHANGED << chartXML, processedToolCalls, committedXML, finalCalls,
                    editDiagramOriginalXmlRef, editTimers, outside >>

\* The debounce callback of a timer of an unmounted instance: it works on the
\* refs of that instance.
OrphanDebounceCallback(t, throws) ==
    \E r \in {handleDisplayChart(t.pending, FALSE, t.chart, t.prev, throws)} :
        /\ orphanTimers' = orphanTimers \ {t}
        /\ Load(r)
        /\ last' = Step("orphantimer", "none", "preview", t.pending, r)
        /\ UNCHANGED << previousXML, processedToolCalls, lastProcessedXmlRef,
                        pendingXmlRef, debounceTimeoutRef, timers, committedXML,
                        finalCalls, editVars, outside >>

OrphanTimerFires ==
    \E t \in orphanTimers, throws \in BOOLEAN : OrphanDebounceCallback(t, throws)

\* The display_diagram parts observed between mounts.
RemountPayloads ==
    { << Cell("2", "1", "raw"), Cell("3", "9", "partial") >>,
      << Cell("2", "1", "raw"), Cell("3", "9", "ok") >> }

ObserveMounted ==
    \E id \in ToolCallIds, st \in {"input-available", "output-available"},
       xml \in RemountPayloads :
        /\ ObserveDisplayDiagram(id, st, xml, FALSE)
        /\ UNCHANGED << editVars, orphanTimers, outside >>

NextRemount ==
    ObserveMounted \/ TimerFires \/ ResetOnEmptyMessages \/ Remount \/ OrphanTimerFires

SpecRemount == Init /\ [][NextRemount]_allVars

\* ------------------------------------- getCompleteOperations on its own
\* The shapes an element of a streamed operations array can have.
RawOps ==
    { Op(k, c, x) :
        k \in {Str("add"), Str("update"), Str("delete"), Str("move"), Str("upd"),
               Undefined},
        c \in {Str("2"), Str(""), Undefined},
        x \in {Str(Cell("2", "1", "ok")), NoXml} }
    \cup {NullOp}

RECURSIVE SeqsUpTo(_, _)
SeqsUpTo(S, n) ==
    IF n = 0 THEN {<< >>}
    ELSE SeqsUpTo(S, n - 1) \cup
         {Append(q, x) : q \in {r \in SeqsUpTo(S, n - 1) : Len(r) = n - 1}, x \in S}

OperationsInputs == {NoOperations} \cup {Operations(q) : q \in SeqsUpTo(RawOps, MaxOps)}

InitOps ==
    /\ DisplayInit
    /\ EditInit
    /\ orphanTimers = {}
    /\ inputOperations \in OperationsInputs
    /\ filtered = NotFiltered
    /\ PanelInit
    /\ SaveInit
    /\ callArgs = NoArgs
    /\ callResult = NotCalled

\* completeOps = getCompleteOperations(input.operations)
FilterOperations ==
    /\ ~filtered.done
    /\ filtered' = [done |-> TRUE, ops |-> getCompleteOperations(inputOperations)]
    /\ UNCHANGED << vars, editVars, orphanTimers, inputOperations, chatVars, retryVars,
                    saveVars, callVars >>

SpecOps == InitOps /\ [][FilterOperations]_allVars

\* ------------------------------------------------------ the chat panel
Message(role, tools) == [role |-> role, tools |-> tools]

\* The states of the tool parts of an assistant message, in order.
ToolShapes ==
    { << >>, << "output-available" >>, << "output-error" >>,
      << "output-error", "output-available" >>,
      << "output-available", "output-error" >> }

\* Variant: any tool part of the last message in error counts.
hasToolErrors_AnyPart(msgs) ==
    IF msgs = << >> \/ msgs[Len(msgs)].role # "assistant" THEN FALSE
    ELSE \E i \in 1..Len(msgs[Len(msgs)].tools) :
             msgs[Len(msgs)].tools[i] = "output-error"

hasToolErrors(msgs) ==
    IF msgs = << >> \/ msgs[Len(msgs)].role # "assistant" THEN FALSE
    ELSE IF msgs[Len(msgs)].tools = << >> THEN FALSE
    ELSE msgs[Len(msgs)].tools[Len(msgs[Len(msgs)].tools)] = "output-error"

Verdict(ret, auto, cont, partial, toast, mode) ==
    [ret |-> ret, auto |-> auto, cont |-> cont, partial |-> partial, toast |-> toast,
     mode |-> mode]

\* Variant: a continuation retry starts the count of regular retries afresh.
sendAutomaticallyWhen_SharedReset(msgs, auto, cont, partial) ==
    IF ~hasToolErrors(msgs)
    THEN Verdict(FALSE, 0, 0, FALSE, "none", "noerror")
    ELSE IF partial
    THEN IF cont >= MAX_CONTINUATION_RETRY_COUNT
         THEN Verdict(FALSE, auto, 0, FALSE, "continuationRetryLimit", "continuation")
         ELSE Verdict(TRUE, 0, cont + 1, partial, "none", "continuation")
    ELSE IF auto >= MAX_AUTO_RETRY_COUNT
         THEN Verdict(FALSE, 0, cont, FALSE, "retryLimit", "regular")
         ELSE Verdict(TRUE, auto + 1, cont, partial, "none", "regular")

\* Variant: the limits are tested with > instead of >=.
sendAutomaticallyWhen_OffByOne(msgs, auto, cont, partial) ==
    IF ~hasToolErrors(msgs)
    THEN Verdict(FALSE, 0, 0, FALSE, "none", "noerror")
    ELSE IF partial
    THEN IF cont > MAX_CONTINUATION_RETRY_COUNT
         THEN Verdict(FALSE, auto, 0, FALSE, "continuationRetryLimit", "continuation")
         ELSE Verdict(TRUE, auto, cont + 1, partial, "none", "continuation")
    ELSE IF auto > MAX_AUTO_RETRY_COUNT
         THEN Verdict(FALSE, 0, cont, FALSE, "retryLimit", "regular")
         ELSE Verdict(TRUE, auto + 1, cont, partial, "none", "regular")

\* The value returned and the refs after the call.
sendAutomaticallyWhen(msgs, auto, cont, partial) ==
    IF ~hasToolErrors(msgs)
    THEN Verdict(FALSE, 0, 0, FALSE, "none", "noerror")
    ELSE IF partial
    THEN IF cont >= MAX_CONTINUATION_RETRY_COUNT
         THEN Verdict(FALSE, auto, 0, FALSE, "continuationRetryLimit", "continuation")
         ELSE Verdict(TRUE, auto, cont + 1, partial, "none", "continuation")
    ELSE IF auto >= MAX_AUTO_RETRY_COUNT
         THEN Verdict(FALSE, 0, cont, FALSE, "retryLimit", "regular")
         ELSE Verdict(TRUE, auto + 1, cont, partial, "none", "regular")

\* What a panel step did, in the shape of Step: the toast it showed and, in
\* outcome, the mode or the reason.
PanelStep(op, branch, toast, outcome) ==
    Step(op, branch, "none", << >>, Skipped(<< >>, outcome, toast))

IsProcessing == status \in {"streaming", "submitted"}

\* sendMessage of useChat: the user message joins the list, the request starts.
sendMessage ==
    /\ messages' = Append(messages, Message("user", << >>))
    /\ status' = "submitted"

\* sendChatMessage: the retry state is reset, then sendMessage.
sendChatMessage ==
    /\ autoRetryCountRef' = 0
    /\ continuationRetryCountRef' = 0
    /\ partialXmlRef' = FALSE
    /\ sendMessage

\* The chart onFetchChart exports: the empty template when there is no document.
FetchedChart == IF chartXML = << >> THEN DefaultBase ELSE chartXML

SetSnapshot(snaps, k, xml) ==
    [j \in DOMAIN snaps \cup {k} |-> IF j = k THEN xml ELSE snaps[j]]

displayVars == << previousXML, processedToolCalls, lastProcessedXmlRef, pendingXmlRef,
                  debounceTimeoutRef, timers, committedXML, finalCalls >>

panelFrame == << displayVars, editVars, orphanTimers, inputOperations, filtered, saveVars,
                callVars >>

\* onFormSubmit up to its await: the guard on input and status; cached: the
\* input matches a cached example.
OnFormSubmit(cached) ==
    /\ ~submitting.active
    /\ Len(messages) + 2 <= MaxMessages
    /\ IF IsProcessing
       THEN /\ last' = PanelStep("onFormSubmit", "blocked", "none", "none")
            /\ UNCHANGED << messages, submitting >>
       ELSE IF messages = << >> /\ cached
       THEN /\ messages' = << Message("user", << >>),
                              Message("assistant", << "output-available" >>) >>
            /\ last' = PanelStep("onFormSubmit", "cached", "none", "none")
            /\ UNCHANGED submitting
       ELSE /\ submitting' = [active |-> TRUE, index |-> Len(messages)]
            /\ last' = PanelStep("onFormSubmit", "fetching", "none", "none")
            /\ UNCHANGED messages
    /\ UNCHANGED << status, xmlSnapshots, sessionId, diagramHistory, validationStates,
                    retryVars, chartXML, panelFrame >>

\* onFormSubmit after onFetchChart resolved (fails: it rejected).
OnFormSubmitFetched(fails) ==
    /\ submitting.active
    /\ submitting' = NotSubmitting
    /\ IF fails \/ Len(messages) >= MaxMessages
       THEN /\ last' = PanelStep("onFormSubmit", "failed", "none", "none")
            /\ UNCHANGED << status, messages, xmlSnapshots, retryVars >>
       ELSE /\ xmlSnapshots' = SetSnapshot(xmlSnapshots, submitting.index, FetchedChart)
            /\ sendChatMessage
            /\ last' = PanelStep("onFormSubmit", "sent", "none", "none")
    /\ UNCHANGED << sessionId, diagramHistory, validationStates, chartXML, panelFrame >>

\* useChat: the response starts to stream.
ResponseStarts ==
    /\ status = "submitted"
    /\ status' = "streaming"
    /\ last' = PanelStep("useChat", "streaming", "none", "none")
    /\ UNCHANGED << messages, xmlSnapshots, sessionId, submitting, diagramHistory,
                    validationStates, retryVars, chartXML, panelFrame >>

\* The tool handler, while a response streams: it keeps the truncated output
\* of a tool call in partialXmlRef, or clears it.
ToolHandlerOutput(truncated) ==
    /\ status = "streaming"
    /\ partialXmlRef' = truncated
    /\ last' = PanelStep("handleToolCall", "none", "none", "none")
    /\ UNCHANGED << chatVars, autoRetryCountRef, continuationRetryCountRef, chartXML,
                    panelFrame >>

\* The assistant message of the response that finished.
WithResponse(msgs, tools) ==
    IF msgs # << >> /\ msgs[Len(msgs)].role = "assistant"
    THEN [msgs EXCEPT ![Len(msgs)] = Message("assistant", tools)]
    ELSE Append(msgs, Message("assistant", tools))

\* useChat: the response finished; sendAutomaticallyWhen decides whether the
\* messages are submitted again.
ResponseFinishes(tools) ==
    /\ IsProcessing
    /\ \E msgs \in {WithResponse(messages, tools)} :
       \E r \in {sendAutomaticallyWhen(msgs, autoRetryCountRef,
                                        continuationRetryCountRef, partialXmlRef)} :
           /\ messages' = msgs
           /\ autoRetryCountRef' = r.auto
           /\ continuationRetryCountRef' = r.cont
           /\ partialXmlRef' = r.partial
           /\ status' = IF r.ret THEN "submitted" ELSE "ready"
           /\ last' = PanelStep("sendAutomaticallyWhen",
                                IF r.ret THEN "true" ELSE "false", r.toast, r.mode)
    /\ UNCHANGED << xmlSnapshots, sessionId, submitting, diagramHistory,
                    validationStates, chartXML, panelFrame >>

\* useChat: the request failed; onError appends a system message unless the
\* error is a quota notice (quota).
ResponseFails(quota) ==
    /\ IsProcessing
    /\ status' = "error"
    /\ messages' = IF quota \/ Len(messages) >= MaxMessages THEN messages
                   ELSE Append(messages, Message("system", << >>))
    /\ last' = PanelStep("onError", "none", "none", "none")
    /\ UNCHANGED << xmlSnapshots, sessionId, submitting, diagramHistory,
                    validationStates, retryVars, chartXML, panelFrame >>

NextRetry ==
    \/ \E cached \in BOOLEAN : OnFormSubmit(cached)
    \/ \E fails \in BOOLEAN : OnFormSubmitFetched(fails)
    \/ ResponseStarts
    \/ \E truncated \in BOOLEAN : ToolHandlerOutput(truncated)
    \/ \E tools \in ToolShapes : ResponseFinishes(tools)
    \/ \E quota \in BOOLEAN : ResponseFails(quota)

SpecRetry == Init /\ [][NextRetry]_allVars

\* ------------------------------------ runs of automatic resubmission
\* callResult counts the automatic resubmissions since the last message of
\* the user; done: sendAutomaticallyWhen returned false since.
Resubmitted(n, done) == [done |-> done, resubmissions |-> n]

runFrame == << displayVars, editVars, orphanTimers, inputOperations, filtered, saveVars,
               callArgs >>

InitResubmit ==
    /\ DisplayInit
    /\ EditInit
    /\ orphanTimers = {}
    /\ inputOperations = NoOperations
    /\ filtered = NotFiltered
    /\ PanelInit
    /\ SaveInit
    /\ callArgs = [fn |-> "sendAutomaticallyWhen"]
    /\ callResult = Resubmitted(0, FALSE)

\* A message of the user goes out through sendChatMessage (the form,
\* regenerate, the edit of a message).
UserSends ==
    /\ ~IsProcessing
    /\ Len(messages) + 2 <= MaxMessages
    /\ sendChatMessage
    /\ callResult' = Resubmitted(0, FALSE)
    /\ last' = PanelStep("sendChatMessage", "sent", "none", "none")
    /\ UNCHANGED << xmlSnapshots, sessionId, submitting, diagramHistory, validationStates,
                    chartXML, runFrame >>

\* A message of the user goes out through handleImproveWithSuggestions.
ImproveSends ==
    /\ Len(messages) + 2 <= MaxMessages
    /\ sendMessage
    /\ callResult' = Resubmitted(0, FALSE)
    /\ last' = PanelStep("handleImproveWithSuggestions", "sent", "none", "none")
    /\ UNCHANGED << xmlSnapshots, sessionId, submitting, diagramHistory, validationStates,
                    retryVars, chartXML, runFrame >>

\* useChat: a response finished whose last tool part failed;
\* sendAutomaticallyWhen decides whether the messages are submitted again.
FailedResponseFinishes(tools) ==
    /\ IsProcessing
    /\ tools[Len(tools)] = "output-error"
    /\ \E msgs \in {WithResponse(messages, tools)} :
       \E r \in {sendAutomaticallyWhen(msgs, autoRetryCountRef,
                                        continuationRetryCountRef, partialXmlRef)} :
           /\ messages' = msgs
           /\ autoRetryCountRef' = r.auto
           /\ continuationRetryCountRef' = r.cont
           /\ partialXmlRef' = r.partial
           /\ status' = IF r.ret THEN "submitted" ELSE "ready"
           /\ callResult' = IF r.ret
                             THEN Resubmitted(callResult.resubmissions + 1, FALSE)
                             ELSE Resubmitted(callResult.resubmissions, TRUE)
           /\ last' = PanelStep("sendAutomaticallyWhen",
                                IF r.ret THEN "true" ELSE "false", r.toast, r.mode)
    /\ UNCHANGED << xmlSnapshots, sessionId, submitting, diagramHistory,
                    validationStates, chartXML, runFrame >>

FailingResponses == {t \in ToolShapes : t # << >> /\ t[Len(t)] = "output-error"}

AnyFailedResponseFinishes == \E tools \in FailingResponses : FailedResponseFinishes(tools)

NextResubmit ==
    \/ UserSends
    \/ ImproveSends
    \/ ResponseStarts
    \/ \E truncated \in BOOLEAN : ToolHandlerOutput(truncated)
    \/ AnyFailedResponseFinishes

\* Every response ends: useChat calls sendAutomaticallyWhen when the stream
\* of a response is over.
SpecResubmit ==
    InitResubmit /\ [][NextResubmit]_allVars /\ WF_allVars(AnyFailedResponseFinishes)

\* ------------------------------- sendAutomaticallyWhen on message lists
\* A part of a message: its type and, for a tool part, the state of the call.
Part(type, state) == [type |-> type, state |-> state]

TextPart == Part("text", "done")

\* part.type?.startsWith("tool-")
IsToolPart(part) == part.type \in {"tool-display_diagram", "tool-edit_diagram"}

\* The filter of hasToolErrors: the tool parts of a message, in order.
toolParts(parts) == SelectSeq(parts, IsToolPart)

\* The message list as hasToolErrors reads it: of every message the role and
\* the states of its tool parts.
ToolStates(msgs) ==
    [i \in 1..Len(msgs) |->
        Message(msgs[i].role,
                [j \in 1..Len(toolParts(msgs[i].parts)) |->
                    toolParts(msgs[i].parts)[j].state])]

TurnParts ==
    {TextPart, Part("tool-display_diagram", "output-available"),
     Part("tool-edit_diagram", "output-error")}

\* The messages of a conversation: what the user typed, the notice of a
\* failed request, and the responses with their parts.
TurnMessages ==
    {[role |-> "user", parts |-> << TextPart >>],
     [role |-> "system", parts |-> << TextPart >>]}
    \cup {[role |-> "assistant", parts |-> q] : q \in SeqsUpTo(TurnParts, MaxParts)}

InitVerdict ==
    /\ DisplayInit
    /\ EditInit
    /\ orphanTimers = {}
    /\ inputOperations = NoOperations
    /\ filtered = NotFiltered
    /\ PanelInit
    /\ SaveInit
    /\ callArgs \in [fn : {"sendAutomaticallyWhen"},
                     messages : SeqsUpTo(TurnMessages, MaxTurns),
                     auto : {0, MAX_AUTO_RETRY_COUNT},
                     partial : BOOLEAN]
    /\ callResult = NotCalled

\* sendAutomaticallyWhen({ messages }) with the refs as the call found them.
EvaluateVerdict ==
    /\ ~callResult.done
    /\ \E r \in {sendAutomaticallyWhen(ToolStates(callArgs.messages), callArgs.auto, 0,
                                        callArgs.partial)} :
           callResult' = [done |-> TRUE, verdict |-> r]
    /\ UNCHANGED << vars, editVars, orphanTimers, inputOperations, filtered, chatVars,
                    retryVars, saveVars, callArgs >>

SpecVerdict == InitVerdict /\ [][EvaluateVerdict]_allVars

\* ------------------------------------------- the handlers of the user
\* The position of the last user message before position p (0: none).
UserMessageBefore(msgs, p) ==
    IF \E u \in 1..(p - 1) : msgs[u].role = "user"
    THEN CHOOSE u \in 1..(p - 1) :
             /\ msgs[u].role = "user"
             /\ \A w \in (u + 1)..(p - 1) : msgs[w].role # "user"
    ELSE 0

\* Variant: the snapshot of the first message is taken, not the nearest one.
getPreviousXml_Oldest(snaps, beforeIndex) ==
    IF \E k \in DOMAIN snaps : k < beforeIndex
    THEN snaps[CHOOSE k \in DOMAIN snaps :
                   k < beforeIndex /\ \A j \in DOMAIN snaps : j < beforeIndex => j >= k]
    ELSE << >>

\* getPreviousXml(beforeIndex): the snapshot with the largest key below
\* beforeIndex, or the empty string.
getPreviousXml(snaps, beforeIndex) ==
    IF \E k \in DOMAIN snaps : k < beforeIndex
    THEN snaps[CHOOSE k \in DOMAIN snaps :
                   k < beforeIndex /\ \A j \in DOMAIN snaps : j < beforeIndex => j <= k]
    ELSE << >>

\* What a call of regenerate or edit did: p, the position it was called on,
\* and, when it sent, what it handed to sendChatMessage as xml and previousXml.
Resent(op, xml, previousXml, p) ==
    Step(op, "sent", "none", << xml, previousXml, p >>, Skipped(<< >>, "none", "none"))

NotResent(op, branch, p) ==
    Step(op, branch, "none", << p >>, Skipped(<< >>, "none", "none"))

\* cleanupSnapshotsAfter(k): the snapshots of later messages are deleted.
cleanupSnapshotsAfter(snaps, k) == [j \in {i \in DOMAIN snaps : i <= k} |-> snaps[j]]

\* Variant: the missing snapshot is taken for the empty diagram.
ResendFrom_EmptyDefault(op, u, p) ==
    IF IsProcessing
    THEN /\ last' = NotResent(op, "blocked", p)
         /\ UNCHANGED << status, messages, xmlSnapshots, retryVars, chartXML >>
    ELSE IF u = 0
    THEN /\ last' = NotResent(op, "nosnapshot", p)
         /\ UNCHANGED << status, messages, xmlSnapshots, retryVars, chartXML >>
    ELSE /\ chartXML' = IF (u - 1) \in DOMAIN xmlSnapshots THEN xmlSnapshots[u - 1]
                        ELSE << >>
         /\ xmlSnapshots' = cleanupSnapshotsAfter(xmlSnapshots, u - 1)
         /\ messages' = Append(SubSeq(messages, 1, u - 1), Message("user", << >>))
         /\ status' = "submitted"
         /\ autoRetryCountRef' = 0
         /\ continuationRetryCountRef' = 0
         /\ partialXmlRef' = FALSE
         /\ last' = Resent(op, chartXML', getPreviousXml(xmlSnapshots, u - 1), p)

\* The common part of handleRegenerate and handleEditMessage, called on
\* position p, for the user message at position u (message index u - 1).
ResendFrom(op, u, p) ==
    IF IsProcessing
    THEN /\ last' = NotResent(op, "blocked", p)
         /\ UNCHANGED << status, messages, xmlSnapshots, retryVars, chartXML >>
    ELSE IF u = 0 \/ (u - 1) \notin DOMAIN xmlSnapshots
    THEN /\ last' = NotResent(op, "nosnapshot", p)
         /\ UNCHANGED << status, messages, xmlSnapshots, retryVars, chartXML >>
    ELSE /\ chartXML' = xmlSnapshots[u - 1]
         /\ xmlSnapshots' = cleanupSnapshotsAfter(xmlSnapshots, u - 1)
         /\ messages' = Append(SubSeq(messages, 1, u - 1), Message("user", << >>))
         /\ status' = "submitted"
         /\ autoRetryCountRef' = 0
         /\ continuationRetryCountRef' = 0
         /\ partialXmlRef' = FALSE
         /\ last' = Resent(op, xmlSnapshots[u - 1], getPreviousXml(xmlSnapshots, u - 1), p)

\* handleRegenerate(messageIndex), p = messageIndex + 1.
HandleRegenerate(p) ==
    /\ p \in 1..Len(messages)
    /\ ResendFrom("handleRegenerate", UserMessageBefore(messages, p), p)
    /\ UNCHANGED << sessionId, submitting, diagramHistory, validationStates, panelFrame >>

\* handleEditMessage(messageIndex, newText), p = messageIndex + 1.
HandleEditMessage(p) ==
    /\ p \in 1..Len(messages)
    /\ ResendFrom("handleEditMessage", IF messages[p].role = "user" THEN p ELSE 0, p)
    /\ UNCHANGED << sessionId, submitting, diagramHistory, validationStates, panelFrame >>

\* -------------------------- regenerate and edit on stored conversations
\* The conversations a resend starts from: the first message is the user's;
\* then messages of the user, responses and notices of failed requests.
HistoryMessages ==
    {Message("user", << >>), Message("assistant", << "output-available" >>),
     Message("system", << >>)}

Histories ==
    {h \in SeqsUpTo(HistoryMessages, MaxHistory) : h # << >> /\ h[1].role = "user"}

\* The documents of the snapshots and of the canvas.
HistoryDocs == {DefaultBase, DefaultBase \o << Cell("2", "1", "ok") >>}

\* The snapshot maps of a conversation: onFormSubmit stores the snapshot of a
\* message at the index the message takes; a message sent otherwise has none.
HistorySnapshots(h) ==
    UNION {[K -> HistoryDocs] :
              K \in SUBSET {i \in 0..(Len(h) - 1) : h[i + 1].role = "user"}}

InitResend ==
    /\ previousXML = << >>
    /\ processedToolCalls = {}
    /\ lastProcessedXmlRef = [i \in ToolCallIds |-> << >>]
    /\ pendingXmlRef = << >>
    /\ debounceTimeoutRef = 0
    /\ timers = {}
    /\ committedXML = << >>
    /\ finalCalls = [i \in ToolCallIds |-> 0]
    /\ last = Idle("init", "none")
    /\ EditInit
    /\ orphanTimers = {}
    /\ inputOperations = NoOperations
    /\ filtered = NotFiltered
    /\ SaveInit
    /\ callArgs = NoArgs
    /\ callResult = NotCalled
    /\ sessionId = 1
    /\ submitting = NotSubmitting
    /\ diagramHistory = FALSE
    /\ validationStates = FALSE
    /\ continuationRetryCountRef = 0
    /\ partialXmlRef = FALSE
    /\ status \in {"ready", "error"}
    /\ autoRetryCountRef = IF status = "error" THEN 1 ELSE 0
    /\ messages \in Histories
    /\ xmlSnapshots \in HistorySnapshots(messages)
    /\ chartXML \in HistoryDocs

NextResend ==
    \/ \E p \in 1..MaxHistory : HandleRegenerate(p)
    \/ \E p \in 1..MaxHistory : HandleEditMessage(p)
    \/ ResponseStarts
    \/ ResponseFinishes(<< "output-available" >>)
    \/ ResponseFails(TRUE)

SpecResend == InitResend /\ [][NextResend]_allVars

\* handleImproveWithSuggestions(feedback), called by the validation card of a
\* diagram.
HandleImproveWithSuggestions ==
    /\ Len(messages) < MaxMessages
    /\ sendMessage
    /\ last' = PanelStep("handleImproveWithSuggestions", "sent", "none", "none")
    /\ UNCHANGED << xmlSnapshots, sessionId, submitting, diagramHistory, validationStates,
                    retryVars, chartXML, panelFrame >>

\* handleValidationStateChange(toolCallId, state)
HandleValidationStateChange ==
    /\ \E i \in 1..Len(messages) : messages[i].tools # << >>
    /\ validationStates' = TRUE
    /\ last' = PanelStep("handleValidationStateChange", "none", "none", "none")
    /\ UNCHANGED << status, messages, xmlSnapshots, sessionId, submitting, diagramHistory,
                    retryVars, chartXML, panelFrame >>

\* handleNewChat, after the save of the current session.
HandleNewChat ==
    /\ sessionId < MaxSessions
    /\ messages' = << >>
    /\ chartXML' = << >>
    /\ diagramHistory' = FALSE
    /\ validationStates' = FALSE
    /\ sessionId' = sessionId + 1
    /\ xmlSnapshots' = NoSnapshots
    /\ last' = PanelStep("handleNewChat", "none", "clearSuccess", "none")
    /\ UNCHANGED << status, submitting, retryVars, panelFrame >>

\* The reset effect of the display, on the empty message list.
DisplayReset == messages = << >> /\ ResetOnEmptyMessages

\* The display observes the tool parts of the assistant messages.
DisplayObserves ==
    /\ \E i \in 1..Len(messages) : messages[i].tools # << >>
    /\ \/ \E id \in ToolCallIds, xml \in SeedPayloads :
              /\ ObserveDisplayDiagram(id, "output-available", xml, FALSE)
              /\ UNCHANGED << editVars, orphanTimers, outside >>
       \/ \E id \in EditCallIds :
              /\ ObserveEditDiagram(id, "output-available", Operations(<< OpAdd4, OpDelete2 >>))
              /\ UNCHANGED << outside, orphanTimers, chartXML, previousXML,
                              lastProcessedXmlRef, pendingXmlRef, debounceTimeoutRef,
                              timers, committedXML, finalCalls >>

\* The responses of the conversations: one tool call, which succeeded or failed.
ChatResponses == { << "output-available" >>, << "output-error" >> }

NextChat ==
    \/ \E cached \in BOOLEAN : OnFormSubmit(cached)
    \/ OnFormSubmitFetched(FALSE)
    \/ ResponseStarts
    \/ \E tools \in ChatResponses : ResponseFinishes(tools)
    \/ ResponseFails(FALSE)
    \/ \E p \in 1..MaxMessages : HandleRegenerate(p)
    \/ \E p \in 1..MaxMessages : HandleEditMessage(p)
    \/ HandleImproveWithSuggestions
    \/ HandleValidationStateChange
    \/ HandleNewChat
    \/ DisplayReset
    \/ DisplayObserves

SpecChat == Init /\ [][NextChat]_allVars

\* ------------------------------- a new chat while a response streams
\* The display observes the display_diagram part of the response that
\* streams.
StreamObserved ==
    /\ status = "streaming"
    /\ messages # << >>
    /\ \E id \in ToolCallIds, xml \in Payloads :
           ObserveDisplayDiagram(id, "input-streaming", xml, FALSE)
    /\ UNCHANGED << editVars, orphanTimers, outside >>

NextClear ==
    \/ OnFormSubmit(FALSE)
    \/ OnFormSubmitFetched(FALSE)
    \/ ResponseStarts
    \/ ResponseFinishes(<< "output-available" >>)
    \/ StreamObserved
    \/ TimerFires
    \/ HandleNewChat
    \/ DisplayReset

SpecClear == Init /\ [][NextClear]_allVars

\* ---------------------------------------------- the auto-save of the session
\* The refs of the auto-save effect, as one record.
SaveRefs == [ref |-> localStorageDebounceRef, timers |-> saveTimers,
             cleanup |-> saveCleanup, justLoaded |-> justLoadedSessionRef]

\* Variant: the pending timer is left alone.
ClearSaveTimer_Keeps(ref, ts) == ts

\* if (localStorageDebounceRef.current) clearTimeout(localStorageDebounceRef.current)
ClearSaveTimer(ref, ts) == IF ref # 0 THEN {t \in ts : t.h # ref} ELSE ts

FreeSaveHandle(ts) == CHOOSE h \in 1..(Cardinality(ts) + 1) : \A t \in ts : t.h # h

\* The cleanup the previous run of the effect returned, if it returned one.
AutoSaveCleanup(r) ==
    IF r.cleanup THEN [r EXCEPT !.timers = ClearSaveTimer(r.ref, r.timers)] ELSE r

\* One run of the auto-save effect on the rendered status, messages and
\* session: the refs after it and, in branch, the return it took.
AutoSaveEffect(r, restored, avail, st, msgs, sid) ==
    IF ~restored THEN [refs |-> [r EXCEPT !.cleanup = FALSE], branch |-> "notRestored"]
    ELSE IF ~avail THEN [refs |-> [r EXCEPT !.cleanup = FALSE], branch |-> "unavailable"]
    ELSE IF st \in {"streaming", "submitted"}
    THEN [refs |-> [r EXCEPT !.cleanup = FALSE], branch |-> "processing"]
    ELSE IF r.justLoaded
    THEN [refs |-> [r EXCEPT !.cleanup = FALSE, !.justLoaded = FALSE],
          branch |-> "justLoaded"]
    ELSE LET ts == ClearSaveTimer(r.ref, r.timers)
             h  == FreeSaveHandle(ts)
         IN  [refs |-> [ref |-> h,
                        timers |-> ts \cup {[h |-> h, empty |-> msgs = << >>,
                                             session |-> sid]},
                        cleanup |-> TRUE, justLoaded |-> FALSE],
              branch |-> "scheduled"]

\* A change of the dependencies of the effect: the cleanup, then the effect.
AutoSaveRerun(r, restored, avail, st, msgs, sid) ==
    AutoSaveEffect(AutoSaveCleanup(r), restored, avail, st, msgs, sid)

SetSaveRefs(r) ==
    /\ localStorageDebounceRef' = r.ref
    /\ saveTimers' = r.timers
    /\ saveCleanup' = r.cleanup
    /\ justLoadedSessionRef' = r.justLoaded

\* The messages of a stored session.
LoadedMessages == << Message("user", << >>), Message("assistant", << "output-available" >>) >>

\* The message lists the panel renders.
RenderedMessages == { << >>, << Message("user", << >>) >>, LoadedMessages }

saveFrame == << xmlSnapshots, sessionId, submitting, diagramHistory, validationStates,
                retryVars, chartXML, displayVars, editVars, orphanTimers, inputOperations,
                filtered, callVars >>

\* The restore effect; withSession: the session manager holds a session with
\* messages; atMount: it runs in the commit of the mount, before the first run
\* of the auto-save effect, which then sees the messages of the first render.
RestoreEffect(withSession, atMount) ==
    /\ ~hasRestoredRef
    /\ hasRestoredRef' = TRUE
    /\ \E r0 \in {[SaveRefs EXCEPT !.justLoaded = withSession]} :
       \E r1 \in {IF atMount
                  THEN AutoSaveRerun(r0, TRUE, sessionIsAvailable, status, messages,
                                     currentSessionId).refs
                  ELSE r0} :
       \E r2 \in {IF withSession
                  THEN AutoSaveRerun(r1, TRUE, sessionIsAvailable, status, LoadedMessages,
                                     currentSessionId)
                  ELSE [refs |-> r1, branch |-> "none"]} :
           /\ SetSaveRefs(r2.refs)
           /\ messages' = IF withSession THEN LoadedMessages ELSE messages
           /\ last' = PanelStep("restore", r2.branch, "none", "none")
    /\ UNCHANGED << status, sessionIsAvailable, currentSessionId, saveFrame >>

\* The panel renders a new status, message list or session: the auto-save
\* effect runs again; loaded: the messages are those of a session that was
\* just loaded.
DepsChange(st, msgs, avail, sid, loaded) ==
    /\ loaded => msgs = LoadedMessages
    /\ status' = st
    /\ messages' = msgs
    /\ sessionIsAvailable' = avail
    /\ currentSessionId' = sid
    /\ \E r \in {AutoSaveRerun([SaveRefs EXCEPT !.justLoaded = loaded \/ @],
                               hasRestoredRef, avail, st, msgs, sid)} :
           /\ SetSaveRefs(r.refs)
           /\ last' = PanelStep("autosave", r.branch, "none",
                                IF loaded THEN "loaded" ELSE "changed")
    /\ UNCHANGED << hasRestoredRef, saveFrame >>

\* Variant: a failed save is shown to the user.
SaveCallback_Toasts(t, outcome) ==
    IF t.empty THEN PanelStep("savetimer", "empty", "none", "none")
    ELSE IF outcome = "saved" THEN PanelStep("savetimer", "saved", "none", "none")
    ELSE PanelStep("savetimer", "failed", "saveFailed", outcome)

\* The callback of the save timer; outcome: buildSessionData or
\* saveCurrentSession throws, or the session is saved.
SaveCallback(t, outcome) ==
    IF t.empty THEN PanelStep("savetimer", "empty", "none", "none")
    ELSE IF outcome = "saved" THEN PanelStep("savetimer", "saved", "none", "none")
    ELSE PanelStep("savetimer", "failed", "none", outcome)

SaveOutcomes == {"saved", "buildSessionDataThrows", "saveCurrentSessionThrows"}

SaveTimerFires ==
    \E t \in saveTimers, outcome \in SaveOutcomes :
        /\ saveTimers' = saveTimers \ {t}
        /\ last' = SaveCallback(t, outcome)
        /\ UNCHANGED << status, messages, localStorageDebounceRef, saveCleanup,
                        justLoadedSessionRef, hasRestoredRef, sessionIsAvailable,
                        currentSessionId, saveFrame >>

NextSave ==
    \/ \E withSession \in BOOLEAN, atMount \in BOOLEAN : RestoreEffect(withSession, atMount)
    \/ \E st \in {"ready", "submitted", "streaming", "error"}, msgs \in RenderedMessages,
          avail \in BOOLEAN, sid \in 0..MaxSessions, loaded \in BOOLEAN :
           DepsChange(st, msgs, avail, sid, loaded)
    \/ SaveTimerFires

SpecSave == Init /\ [][NextSave]_allVars

\* ------------------------- the save callback across a session switch
\* The callback of the save timer awaits buildSessionData before it calls
\* saveCurrentSession; callResult holds the callback that is running: the id
\* it was scheduled for, and after the call the id it passed and the session
\* that was current at the call.
NotSaving == [done |-> FALSE, running |-> FALSE, scheduled |-> 0, passed |-> 0, current |-> 0]

Saving(scheduled) ==
    [done |-> FALSE, running |-> TRUE, scheduled |-> scheduled, passed |-> 0, current |-> 0]

Saved(scheduled, passed, current) ==
    [done |-> TRUE, running |-> FALSE, scheduled |-> scheduled, passed |-> passed,
     current |-> current]

\* Variant: the id is read when the save is made.
SavedForSessionId_Current(scheduledForSessionId, current) == current

\* The second argument of saveCurrentSession: scheduledForSessionId, captured
\* by the effect run that scheduled the timer.
SavedForSessionId(scheduledForSessionId, current) == scheduledForSessionId

switchFrame == << xmlSnapshots, sessionId, submitting, diagramHistory, validationStates,
                 retryVars, chartXML, displayVars, editVars, orphanTimers, inputOperations,
                 filtered, callArgs >>

InitSwitch ==
    /\ DisplayInit
    /\ EditInit
    /\ orphanTimers = {}
    /\ inputOperations = NoOperations
    /\ filtered = NotFiltered
    /\ PanelInit
    /\ SaveInit
    /\ callArgs = [fn |-> "saveCurrentSession"]
    /\ callResult = NotSaving

\* The save timer fires: the callback tests the messages it closed over and
\* starts buildSessionData.
SaveCallbackStarts ==
    /\ ~callResult.running
    /\ \E t \in saveTimers :
           /\ saveTimers' = saveTimers \ {t}
           /\ IF t.empty
              THEN /\ last' = PanelStep("savetimer", "empty", "none", "none")
                   /\ UNCHANGED callResult
              ELSE /\ last' = PanelStep("savetimer", "building", "none", "none")
                   /\ callResult' = Saving(t.session)
    /\ UNCHANGED << status, messages, localStorageDebounceRef, saveCleanup,
                    justLoadedSessionRef, hasRestoredRef, sessionIsAvailable,
                    currentSessionId, switchFrame >>

\* buildSessionData resolved: saveCurrentSessionRef.current(sessionData,
\* scheduledForSessionId).
SaveCallbackSaves ==
    /\ callResult.running
    /\ \E id \in {SavedForSessionId(callResult.scheduled, currentSessionId)} :
           /\ callResult' = Saved(callResult.scheduled, id, currentSessionId)
           /\ last' = Step("savetimer", "saved", "none", << id >>,
                           Skipped(<< >>, "none", "none"))
    /\ UNCHANGED << status, messages, saveVars, switchFrame >>

NextSwitch ==
    \/ \E withSession \in BOOLEAN, atMount \in BOOLEAN : RestoreEffect(withSession, atMount)
    \/ \E st \in {"ready", "submitted"}, msgs \in RenderedMessages,
          sid \in 0..MaxSessions, loaded \in BOOLEAN :
           DepsChange(st, msgs, TRUE, sid, loaded)
    \/ SaveCallbackStarts
    \/ SaveCallbackSaves

SpecSwitch == InitSwitch /\ [][NextSwitch]_allVars

\* --------------------------------- the model configuration (useModelConfig)
\* A configuration: the providers in order, each with its id and the ids of
\* its models in order, and selectedModelId as a set, empty for undefined.
\* Ids are numbers; 0 is the id of a server model, which no provider holds.
Config(providers, selectedModelId) ==
    [providers |-> providers, selectedModelId |-> selectedModelId]

Provider(id, models) == [id |-> id, models |-> models]

\* The ids of the models of a provider, and of a configuration.
ModelIdsIn(models) == {models[j] : j \in 1..Len(models)}

ModelIdsOf(config) ==
    UNION {ModelIdsIn(config.providers[i].models) : i \in 1..Len(config.providers)}

\* models.filter((m) => m.id !== modelConfigId)
WithoutModel(models, modelConfigId) ==
    SelectSeq(models, LAMBDA m : m # modelConfigId)

\* prev.providers.find((p) => p.id === providerId)?.models.map((m) => m.id) || []
ModelIdsOfProvider(prev, providerId) ==
    IF \E i \in 1..Len(prev.providers) : prev.providers[i].id = providerId
    THEN ModelIdsIn(prev.providers[CHOOSE i \in 1..Len(prev.providers) :
                                       /\ prev.providers[i].id = providerId
                                       /\ \A w \in 1..(i - 1) :
                                              prev.providers[w].id # providerId].models)
    ELSE {}

\* deleteProvider(providerId)
deleteProvider(prev, providerId) ==
    Config(SelectSeq(prev.providers, LAMBDA q : q.id # providerId),
           IF /\ prev.selectedModelId # {}
              /\ prev.selectedModelId \subseteq ModelIdsOfProvider(prev, providerId)
           THEN {} ELSE prev.selectedModelId)

\* deleteModel(providerId, modelConfigId)
deleteModel(prev, providerId, modelConfigId) ==
    Config([i \in 1..Len(prev.providers) |->
               IF prev.providers[i].id = providerId
               THEN Provider(prev.providers[i].id,
                             WithoutModel(prev.providers[i].models, modelConfigId))
               ELSE prev.providers[i]],
           IF prev.selectedModelId = {modelConfigId} THEN {} ELSE prev.selectedModelId)

\* addProvider(provider); id: the id createProviderConfig gave the provider.
addProvider(prev, id) ==
    Config(Append(prev.providers, Provider(id, << >>)), prev.selectedModelId)

\* addModel(providerId, modelId); id: the id createModelConfig gave the model.
addModel(prev, providerId, id) ==
    Config([i \in 1..Len(prev.providers) |->
               IF prev.providers[i].id = providerId
               THEN Provider(prev.providers[i].id, Append(prev.providers[i].models, id))
               ELSE prev.providers[i]],
           prev.selectedModelId)

\* The configurations: every provider id and every model id occurs once.
ModelLists ==
    {q \in SeqsUpTo(1..MaxModels, MaxModels) : Cardinality(ModelIdsIn(q)) = Len(q)}

ProviderLists ==
    {q \in SeqsUpTo([id : 1..MaxProviders, models : ModelLists], MaxProviders) :
        /\ \A i, j \in 1..Len(q) : i # j => q[i].id # q[j].id
        /\ \A i, j \in 1..Len(q) :
               i # j => ModelIdsIn(q[i].models) \cap ModelIdsIn(q[j].models) = {}}

\* selectedModelId is undefined, a server model, or a model of the
\* configuration.
Configs ==
    {c \in [providers : ProviderLists,
            selectedModelId : {{}} \cup {{m} : m \in 0..MaxModels}] :
        c.selectedModelId \subseteq ModelIdsOf(c) \cup {0}}

ConfigCalls ==
    [fn : {"deleteProvider"}, providerId : 1..(MaxProviders + 1), modelId : {0}]
    \cup [fn : {"deleteModel"}, providerId : 1..(MaxProviders + 1),
          modelId : 1..(MaxModels + 1)]
    \cup [fn : {"addProvider"}, providerId : {MaxProviders + 1}, modelId : {0}]
    \cup [fn : {"addModel"}, providerId : 1..(MaxProviders + 1),
          modelId : {MaxModels + 1}]

InitConfig ==
    /\ DisplayInit
    /\ EditInit
    /\ orphanTimers = {}
    /\ inputOperations = NoOperations
    /\ filtered = NotFiltered
    /\ PanelInit
    /\ SaveInit
    /\ callArgs \in {[fn |-> c.fn, providerId |-> c.providerId, modelId |-> c.modelId,
                      prev |-> prev] : c \in ConfigCalls, prev \in Configs}
    /\ callResult = NotCalled

\* setConfig((prev) => ...) of the action that was called.
UpdateConfig ==
    /\ ~callResult.done
    /\ \E next \in {IF callArgs.fn = "deleteProvider"
                     THEN deleteProvider(callArgs.prev, callArgs.providerId)
                     ELSE IF callArgs.fn = "deleteModel"
                     THEN deleteModel(callArgs.prev, callArgs.providerId, callArgs.modelId)
                     ELSE IF callArgs.fn = "addProvider"
                     THEN addProvider(callArgs.prev, callArgs.providerId)
                     ELSE addModel(callArgs.prev, callArgs.providerId, callArgs.modelId)} :
           callResult' = [done |-> TRUE, config |-> next]
    /\ UNCHANGED << vars, editVars, orphanTimers, inputOperations, filtered, chatVars,
                    retryVars, saveVars, callArgs >>

SpecConfig == InitConfig /\ [][UpdateConfig]_allVars

\* ------------------------------------- calls of the Operation Applier
\* Documents with unique ids: the two sentinels, then nodes "2" and "3".
ApplyBases ==
    { DefaultBase \o rest :
        rest \in { << >>, << Cell("2", "1", "ok") >>, << Cell("3", "2", "ok") >>,
                   << Cell("2", "1", "ok"), Cell("3", "2", "ok") >>,
                   << Cell("3", "2", "ok"), Cell("2", "1", "ok") >> } }

ApplyCellIds == {"2", "3", "4"}

\* Complete operations; new_xml carries the node of cell_id, parsable ("raw")
\* or not ("mal").
ApplyOps ==
    { Op(Str(k), Str(i), Str(Cell(i, "1", f))) :
        k \in {"add", "update"}, i \in ApplyCellIds, f \in {"raw", "mal"} }
    \cup { Op(Str("delete"), Str(i), NoXml) : i \in ApplyCellIds }

InitApply ==
    /\ DisplayInit
    /\ EditInit
    /\ orphanTimers = {}
    /\ inputOperations = NoOperations
    /\ filtered = NotFiltered
    /\ PanelInit
    /\ SaveInit
    /\ callArgs \in [fn : {"applyDiagramOperations"}, base : ApplyBases,
                     ops : SeqsUpTo(ApplyOps, MaxBatch)]
    /\ callResult = NotCalled

\* applyDiagramOperations(base, ops), and the same batch on its result.
ApplyBatch ==
    /\ ~callResult.done
    /\ \E once \in {applyDiagramOperations(callArgs.base, callArgs.ops)} :
           callResult' = [done |-> TRUE, once |-> once,
                          twice |-> applyDiagramOperations(once.result, callArgs.ops)]
    /\ UNCHANGED << vars, editVars, orphanTimers, inputOperations, filtered, chatVars,
                    retryVars, saveVars, callArgs >>

SpecApply == InitApply /\ [][ApplyBatch]_allVars

\* ------------------------------------------- calls of the Node Merger
\* Legalized fragment nodes: ids of the base or new, with a parent of their own.
FragmentCells == { Cell(i, p, "ok") : i \in {"2", "3", "4"}, p \in {"1", "4"} }

InitMerge ==
    /\ DisplayInit
    /\ EditInit
    /\ orphanTimers = {}
    /\ inputOperations = NoOperations
    /\ filtered = NotFiltered
    /\ PanelInit
    /\ SaveInit
    /\ callArgs \in [fn : {"replaceNodes"}, base : ApplyBases,
                     fragment : SeqsUpTo(FragmentCells, MaxFragment)]
    /\ callResult = NotCalled

\* replaceNodes(baseXML, convertedXml)
MergeFragment ==
    /\ ~callResult.done
    /\ callResult' = [done |-> TRUE,
                      merged |-> replaceNodes(callArgs.base, callArgs.fragment)]
    /\ UNCHANGED << vars, editVars, orphanTimers, inputOperations, filtered, chatVars,
                    retryVars, saveVars, callArgs >>

SpecMerge == InitMerge /\ [][MergeFragment]_allVars

\* --------------------------------------- calls of the Fragment Extractor
\* The complete elements of a stream.
StreamCells == { Cell(i, "1", f) : i \in {"2", "3"}, f \in {"ok", "mal"} }

\* The element e, cut before its end.
CutElement(e) == [e EXCEPT !.form = "partial"]

\* The strings that are prefixes of the string s: whole elements, and then
\* possibly a part of the next one.
Prefixes(s) ==
    { SubSeq(s, 1, k) : k \in 0..Len(s) }
    \cup { Append(SubSeq(s, 1, k), CutElement(s[k + 1])) : k \in 0..(Len(s) - 1) }

\* The strings a stream delivers: complete elements, and then possibly a part
\* of one more.
Streams ==
    UNION { Prefixes(s) : s \in SeqsUpTo(StreamCells, MaxFragment) }

InitExtract ==
    /\ DisplayInit
    /\ EditInit
    /\ orphanTimers = {}
    /\ inputOperations = NoOperations
    /\ filtered = NotFiltered
    /\ PanelInit
    /\ SaveInit
    /\ callArgs \in UNION { [fn : {"extractCompleteMxCells"}, s1 : Prefixes(s), s2 : {s}] :
                              s \in Streams }
    /\ callResult = NotCalled

\* extractCompleteMxCells on a string and on the longer string that follows it.
ExtractTwice ==
    /\ ~callResult.done
    /\ callResult' = [done |-> TRUE,
                      e1 |-> extractCompleteMxCells(callArgs.s1),
                      e2 |-> extractCompleteMxCells(callArgs.s2)]
    /\ UNCHANGED << vars, editVars, orphanTimers, inputOperations, filtered, chatVars,
                    retryVars, saveVars, callArgs >>

SpecExtract == InitExtract /\ [][ExtractTwice]_allVars

\* ------------------------------- calls of the Structural Validator
\* Nodes whose parent exists ("1", "2") or not ("9").
RepairCells == { Cell(i, p, "ok") : i \in {"2", "3", "4", "5"}, p \in {"1", "2", "9"} }

\* Documents with unique ids whose only defects are dangling parents.
RepairDocs ==
    { DefaultBase \o rest :
        rest \in { q \in SeqsUpTo(RepairCells, MaxFragment) :
                     \A j, k \in DOMAIN q : q[j].id = q[k].id => j = k } }

InitRepair ==
    /\ DisplayInit
    /\ EditInit
    /\ orphanTimers = {}
    /\ inputOperations = NoOperations
    /\ filtered = NotFiltered
    /\ PanelInit
    /\ SaveInit
    /\ callArgs \in [fn : {"validateAndFixXml"}, doc : RepairDocs]
    /\ callResult = NotCalled

\* validation = validateAndFixXml(replacedXML); the document that is loaded
\* is validation.fixed || replacedXML.
ValidateDocument ==
    /\ ~callResult.done
    /\ \E validation \in {validateAndFixXml(callArgs.doc)} :
           callResult' = [done |-> TRUE, validation |-> validation,
                          xmlToLoad |-> IF validation.fixed # << >> THEN validation.fixed
                                        ELSE callArgs.doc]
    /\ UNCHANGED << vars, editVars, orphanTimers, inputOperations, filtered, chatVars,
                    retryVars, saveVars, callArgs >>

SpecRepair == InitRepair /\ [][ValidateDocument]_allVars

\* ------------------------------------------------------------ properties
\* C1: for every toolCallId, handleDisplayChart(xml, true) runs at most once
\* between two resets of processedToolCalls, whatever is re-delivered and
\* whether or not the first finalization loaded a document.
C1_FinalAtMostOnce == \A id \in ToolCallIds : finalCalls[id] <= 1

\* C1 witness: a re-delivered output-available part of a finalized id was ignored, after a
\* finalization that loaded nothing.
C1_Witness ==
    /\ last.op = "effect" /\ last.branch = "processed"
    /\ \E id \in ToolCallIds : finalCalls[id] = 1
    /\ committedXML = << >>

\* C2: once a toolCallId is in processedToolCalls, every later increment with
\* that id, in any state, schedules no timer, stores no payload and changes
\* neither the document nor previousXML.
C2_ProcessedIdIgnored ==
    [][\A id \in processedToolCalls, st \in PartStates, xml \in Payloads,
          throws \in BOOLEAN :
          ObserveDisplayDiagram(id, st, xml, throws)
              => UNCHANGED << chartXML, previousXML, pendingXmlRef,
                              debounceTimeoutRef, timers >>]_vars

C4_NoPreviewAfterFinal ==
    [][\A t \in timers, throws \in BOOLEAN :
          (DebounceCallback(t, throws) /\ last'.loaded)
              => t.id \notin processedToolCalls]_vars

\* C5: a display_diagram part of a not yet processed id observed in state
\* output-available is finalized in that step: the final call is made and the
\* id is marked processed, for every payload.
C5_FinalizedWhenObserved ==
    [][\A id \in ToolCallIds \ processedToolCalls, xml \in Payloads,
          throws \in BOOLEAN :
          ObserveDisplayDiagram(id, "output-available", xml, throws)
              => (last'.hdc = "final" /\ id \in processedToolCalls')]_vars

\* C6: a final call on a payload that passes validation loads the validated
\* document, whatever previousXML holds.
C6_ValidatedFinalIsLoaded ==
    [][\A id \in ToolCallIds, xml \in Payloads :
          LET merged == replaceNodes(IF chartXML # << >> THEN chartXML ELSE DefaultBase,
                                     convertToLegalXml(xml))
              v == validateAndFixXml(merged)
          IN  (ObserveDisplayDiagram(id, "output-available", xml, FALSE)
                  /\ last'.hdc = "final"
                  /\ ~HasParseError(convertToLegalXml(xml)) /\ v.valid)
                  => (last'.loaded
                      /\ chartXML' = IF v.fixed # << >> THEN v.fixed ELSE merged)]_vars

\* C7: a final call loads a document only if validateAndFixXml reports valid,
\* and then the repaired document when there is one and the merged one
\* otherwise; when validation fails nothing is loaded and previousXML stays.
C7_LoadOnlyIfValid ==
    [][last'.hdc = "final" =>
       \A merged \in {replaceNodes(IF chartXML # << >> THEN chartXML ELSE DefaultBase,
                                    convertToLegalXml(last'.arg))} :
       \A v \in {validateAndFixXml(merged)} :
           /\ last'.loaded
              => (last'.validated /\ v.valid
                  /\ chartXML' = IF v.fixed # << >> THEN v.fixed ELSE merged)
           /\ (last'.validated /\ ~v.valid)
              => (~last'.loaded /\ chartXML' = chartXML
                  /\ previousXML' = previousXML)
           /\ chartXML' # chartXML => last'.loaded]_vars

\* C7 witness: a final call has loaded a repaired document: node 3 came with a dangling
\* parent and is loaded with parent "1".
C7_Witness ==
    /\ last.hdc = "final" /\ last.outcome = "committed"
    /\ \E i \in DOMAIN chartXML : chartXML[i] = Cell("3", "1", "ok")

\* C8: after a finalization that fails validation the visible document is the
\* last committed document.
C8_FailedFinalKeepsCommitted ==
    (last.hdc = "final" /\ last.outcome = "invalid") => chartXML = committedXML

\* C9: a preview call shows no toast; when the pending payload has no complete
\* element, when its legalized fragment does not parse, or when the merge
\* throws, nothing is loaded and previousXML is unchanged.
C9_SilentPreview ==
    [][last'.hdc = "preview" =>
       \A frag \in {extractCompleteMxCells(last'.arg)} :
           /\ last'.toast = "none"
           /\ (frag = << >> \/ HasParseError(convertToLegalXml(frag))
                  \/ last'.outcome = "threw")
              => (~last'.loaded /\ chartXML' = chartXML
                  /\ previousXML' = previousXML)
           /\ chartXML' # chartXML => last'.loaded]_vars

\* C9 witness: a preview call has met a parse error and loaded nothing.
C9_Witness ==
    /\ last.op = "timer" /\ last.hdc = "preview" /\ last.outcome = "parseerror"
    /\ last.toast = "none" /\ ~last.loaded

\* C10: every final call either loads a document or shows a toast.
C10_FinalLoadsOrNotifies ==
    last.hdc = "final" => (last.loaded \/ last.toast # "none")

C12_PreviewSkipsValidator ==
    [][last'.hdc = "preview" =>
       /\ ~last'.validated
       /\ last'.loaded =>
            \A frag \in {convertToLegalXml(extractCompleteMxCells(last'.arg))} :
                \A i \in DOMAIN frag :
                    \E j \in DOMAIN chartXML' : chartXML'[j] = frag[i]]_allVars

\* C12 witness: an edit_diagram preview has loaded node 4 with its dangling
\* parent, after a display_diagram preview or final call built the document.
C12_Witness ==
    /\ last.op = "edittimer" /\ last.hdc = "preview"
    /\ last.loaded /\ ~last.validated
    /\ \E i \in DOMAIN chartXML : chartXML[i] = Cell("4", "9", "ok")

\* C13: the base of the merge is the two-sentinel document (id "0", and id "1"
\* with parent "0") when chartXML is empty, and chartXML itself otherwise: a
\* preview loads the merge of the fragment into that base, a final call the
\* validated merge.
C13_MergeBase ==
    [][last'.loaded =>
       \A base \in {IF chartXML = << >>
                    THEN << Cell("0", "", "ok"), Cell("1", "0", "ok") >>
                    ELSE chartXML} :
       \A frag \in {IF last'.hdc = "final" THEN last'.arg
                    ELSE extractCompleteMxCells(last'.arg)} :
       \A merged \in {replaceNodes(base, convertToLegalXml(frag))} :
           IF last'.hdc = "final"
           THEN \A v \in {validateAndFixXml(merged)} :
                    chartXML' = IF v.fixed # << >> THEN v.fixed ELSE merged
           ELSE chartXML' = merged]_vars

\* C13 witness: the first preview of a conversation was merged into the
\* synthesized wrapper.
C13_Witness ==
    /\ last.hdc = "preview" /\ last.loaded
    /\ committedXML = << >>
    /\ chartXML = << Cell("0", "", "ok"), Cell("1", "0", "ok"), Cell("2", "1", "ok") >>

\* C19: processedToolCalls survives a remount of the display, and the final
\* processing of an id that is in it is never run again, with the fresh
\* previousXML and last-processed map of the new instance: no final call is
\* made for a processed id, and no id has more than one final call between
\* two resets of the set.
C19_NoReplayAfterRemount ==
    [][/\ last'.op = "remount" => processedToolCalls' = processedToolCalls
       /\ \A id \in processedToolCalls : finalCalls'[id] <= finalCalls[id]
       /\ \A id \in ToolCallIds : finalCalls'[id] <= 1]_allVars

\* C19 witness: the display was remounted after a committed finalization; the
\* processed id is still known and the instance's own refs are fresh.
C19_Witness ==
    /\ last.op = "remount"
    /\ processedToolCalls # {}
    /\ committedXML # << >> /\ chartXML = committedXML
    /\ previousXML = << >>

\* C18: every operation getCompleteOperations lets through has a kind among
\* add, update and delete, a non-empty string cell_id, a string new_xml for
\* add and update and no new_xml for delete; the result is the input without
\* the operations that fail this check, in the input's order.
C18_BoundaryCheck ==
    filtered.done =>
        /\ \A i \in DOMAIN filtered.ops :
              \A op \in {filtered.ops[i]} :
                 /\ ~op.nil
                 /\ op.operation.t = "string"
                 /\ op.operation.v \in {"add", "update", "delete"}
                 /\ op.cell_id.t = "string" /\ op.cell_id.v # ""
                 /\ op.operation.v \in {"add", "update"} => op.new_xml.t = "string"
                 /\ op.operation.v = "delete" => op.new_xml.t = "undefined"
        /\ \E keep \in SUBSET DOMAIN inputOperations.items :
              /\ Len(filtered.ops) = Cardinality(keep)
              /\ \A i \in DOMAIN inputOperations.items :
                    i \in keep <=>
                        \A op \in {inputOperations.items[i]} :
                           /\ ~op.nil
                           /\ op.operation.t = "string"
                           /\ op.operation.v \in {"add", "update", "delete"}
                           /\ op.cell_id.t = "string" /\ op.cell_id.v # ""
                           /\ op.operation.v \in {"add", "update"}
                                 => op.new_xml.t = "string"
                           /\ op.operation.v = "delete" => op.new_xml.t = "undefined"
              /\ \A i \in keep :
                    filtered.ops[Cardinality({j \in keep : j <= i})] = inputOperations.items[i]

\* C20: the auto-retry counter stays within 0..MAX_AUTO_RETRY_COUNT and the
\* continuation counter within 0..MAX_CONTINUATION_RETRY_COUNT; an evaluation
\* of sendAutomaticallyWhen returns true only if it adds one to exactly one of
\* them; at the limit of the current mode it returns false, shows the notice
\* and resets that counter and the partial XML.
C20_BoundedResubmission ==
    [][/\ autoRetryCountRef' \in 0..3
       /\ continuationRetryCountRef' \in 0..2
       /\ last'.op = "sendAutomaticallyWhen" =>
            /\ last'.branch = "true" =>
                 \/ /\ autoRetryCountRef' = autoRetryCountRef + 1
                    /\ continuationRetryCountRef' = continuationRetryCountRef
                 \/ /\ continuationRetryCountRef' = continuationRetryCountRef + 1
                    /\ autoRetryCountRef' = autoRetryCountRef
            /\ (hasToolErrors(messages') /\ partialXmlRef
                   /\ continuationRetryCountRef = 2) =>
                 /\ last'.branch = "false"
                 /\ last'.toast = "continuationRetryLimit"
                 /\ continuationRetryCountRef' = 0
                 /\ ~partialXmlRef'
            /\ (hasToolErrors(messages') /\ ~partialXmlRef /\ autoRetryCountRef = 3) =>
                 /\ last'.branch = "false"
                 /\ last'.toast = "retryLimit"
                 /\ autoRetryCountRef' = 0
                 /\ ~partialXmlRef']_allVars

\* C20 witness: the regular limit was hit: sendAutomaticallyWhen returned
\* false with the notice and reset the counter, after continuation retries
\* that are still counted.
C20_Witness ==
    /\ last.op = "sendAutomaticallyWhen" /\ last.branch = "false"
    /\ last.toast = "retryLimit"
    /\ autoRetryCountRef = 0
    /\ continuationRetryCountRef = 1
    /\ status = "ready"

\* C14: while the chat status is streaming or submitted, form submit,
\* regenerate, edit-message and improve-with-suggestions never call sendMessage
\* and never change the message list or the diagram.
C14_NoWorkWhileInFlight ==
    [][(IsProcessing /\ last'.op \in {"onFormSubmit", "handleRegenerate",
                                      "handleEditMessage",
                                      "handleImproveWithSuggestions"})
       => (last'.branch # "sent" /\ messages' = messages /\ chartXML' = chartXML)]_allVars

\* C17: after handleNewChat and the reset of the display on the empty message
\* list, messages, diagram, diagram history, snapshots, validation states,
\* processedToolCalls, the last-processed map and previousXML are empty, the
\* session id is fresh, and no captured edit original, partial XML or retry
\* counter of the previous conversation is left.
C17_NewChatReplacesState ==
    [][/\ last'.op = "handleNewChat" => sessionId' # sessionId
       /\ (last.op = "handleNewChat" /\ last'.op = "reset")
          => /\ messages' = << >>
             /\ chartXML' = << >>
             /\ ~diagramHistory'
             /\ xmlSnapshots' = NoSnapshots
             /\ ~validationStates'
             /\ processedToolCalls' = {}
             /\ \A i \in ToolCallIds : lastProcessedXmlRef'[i] = << >>
             /\ \A i \in EditCallIds : lastProcessedOpCount'[i] = -1
             /\ previousXML' = << >>
             /\ \A i \in EditCallIds : editDiagramOriginalXmlRef'[i] = << >>
             /\ ~partialXmlRef'
             /\ autoRetryCountRef' = 0
             /\ continuationRetryCountRef' = 0]_allVars

C16_DebouncedIdleOnly ==
    /\ Cardinality(saveTimers) <= 1
    /\ IsProcessing => saveTimers = {}
    /\ messages = << >> => saveTimers = {}

\* C16 (amended): at most one save timer is pending, none is pending while the
\* status is streaming or submitted, a pending timer holds the emptiness of the
\* rendered message list, and a timer that fires on an empty list saves nothing.
C16_DebouncedIdleOnlySavesNonEmpty ==
    /\ [](/\ Cardinality(saveTimers) <= 1
          /\ IsProcessing => saveTimers = {}
          /\ \A t \in saveTimers : t.empty <=> messages = << >>)
    /\ [][(last'.op = "savetimer" /\ messages = << >>) => last'.branch = "empty"]_allVars

C16_Witness ==
    /\ last.op = "savetimer" /\ last.branch = "empty"
    /\ messages = << >>
    /\ hasRestoredRef

\* C21: applying a complete operation batch twice (to the base, then to the
\* document that produced) yields the same document as applying it once, for
\* every base document and every batch of add, update and delete operations.
C21_BatchIdempotent ==
    callResult.done => callResult.twice.result = callResult.once.result

\* The batch with add and update exchanged.
SwapAddUpdate(ops) ==
    [i \in DOMAIN ops |->
        IF ops[i].operation.v = "add" THEN [ops[i] EXCEPT !.operation = Str("update")]
        ELSE IF ops[i].operation.v = "update" THEN [ops[i] EXCEPT !.operation = Str("add")]
        ELSE ops[i]]

\* C22: add and update are the same id-keyed upsert: exchanging them changes
\* neither the document nor the report, and after an add or update with
\* parsable new_xml, on an existing cell_id or not, the document holds exactly
\* one node with that id, equal to the parsed new_xml.
C22_AddUpdateUpsert ==
    callResult.done =>
        /\ applyDiagramOperations(callArgs.base, SwapAddUpdate(callArgs.ops))
               = callResult.once
        /\ \A op \in {callArgs.ops[i] : i \in {Len(callArgs.ops)} \cap DOMAIN callArgs.ops} :
               (op.operation.v \in {"add", "update"} /\ op.new_xml.v.form = "raw")
               => /\ Cardinality({j \in DOMAIN callResult.once.result :
                                     callResult.once.result[j].id = op.cell_id.v}) = 1
                  /\ \E j \in DOMAIN callResult.once.result :
                         callResult.once.result[j] = op.new_xml.v

C22_Witness ==
    /\ callResult.done
    /\ Len(callArgs.ops) = 1
    /\ callArgs.ops[1].operation.v = "add"
    /\ callArgs.ops[1].cell_id.v = "2"
    /\ callArgs.ops[1].new_xml.v.form = "raw"
    /\ \E j \in DOMAIN callArgs.base : callArgs.base[j].id = "2"
    /\ callResult.once.errors = << >>
    /\ Len(callResult.once.result) = Len(callArgs.base)

\* The operations of a batch whose new_xml does not parse.
BadOperations(ops) ==
    {i \in DOMAIN ops : ops[i].operation.v \in {"add", "update"}
                        /\ ops[i].new_xml.v.form = "mal"}

\* The batch without its i-th operation.
WithoutOperation(ops, i) == SubSeq(ops, 1, i - 1) \o SubSeq(ops, i + 1, Len(ops))

LastWithId(frag, id) ==
    frag[CHOOSE i \in DOMAIN frag :
             frag[i].id = id /\ \A k \in DOMAIN frag : (k > i => frag[k].id # id)]

\* The first occurrences of the ids of the fragment that the base lacks.
UnseenFirst(base, frag) ==
    {i \in DOMAIN frag : /\ frag[i].id \notin Ids(base)
                         /\ \A k \in 1..(i - 1) : frag[k].id # frag[i].id}

\* C24: the merge keeps every base node at its position, replaced by the
\* fragment node of the same id if there is one and verbatim otherwise, and
\* appends the nodes of unseen ids after them in fragment order; no id is
\* duplicated.
C24_MergeInPlace ==
    callResult.done =>
        LET base == callArgs.base
            frag == callArgs.fragment
            R    == callResult.merged
            U    == UnseenFirst(base, frag)
        IN  /\ Len(R) = Len(base) + Cardinality(U)
            /\ \A j \in DOMAIN base :
                   R[j] = IF base[j].id \in Ids(frag) THEN LastWithId(frag, base[j].id)
                          ELSE base[j]
            /\ \A i \in U :
                   R[Len(base) + Cardinality({k \in U : k <= i})]
                       = LastWithId(frag, frag[i].id)
            /\ \A j, k \in DOMAIN R : R[j].id = R[k].id => j = k

C24_Witness ==
    /\ callResult.done
    /\ Len(callArgs.base) = 4
    /\ Len(callArgs.fragment) = 3
    /\ callArgs.fragment[1].id = "4"
    /\ callArgs.fragment[2].id = callArgs.base[3].id
    /\ callArgs.fragment[2] # callArgs.base[3]
    /\ callArgs.fragment[3].id = "4"
    /\ callArgs.fragment[3] # callArgs.fragment[1]
    /\ Len(callResult.merged) = 5

\* C25: for s1 a prefix of s2, every element of extract(s1) is in extract(s2)
\* at the same position; no incomplete element is emitted, every complete
\* leading element is, and a string without a complete element gives the
\* empty result.
C25_ExtractorMonotone ==
    callResult.done =>
        /\ Len(callResult.e1) <= Len(callResult.e2)
        /\ \A i \in DOMAIN callResult.e1 : callResult.e1[i] = callResult.e2[i]
        /\ \A i \in DOMAIN callResult.e2 : callResult.e2[i].form # "partial"
        /\ \A i \in DOMAIN callArgs.s2 :
               callArgs.s2[i].form # "partial" => callResult.e2[i] = callArgs.s2[i]
        /\ (\A i \in DOMAIN callArgs.s1 : callArgs.s1[i].form = "partial")
               => callResult.e1 = << >>

C25_Witness ==
    /\ callResult.done
    /\ Len(callArgs.s1) = 2
    /\ callArgs.s1[2].form = "partial"
    /\ Len(callArgs.s2) = 3
    /\ callArgs.s2[3].form = "partial"
    /\ Len(callResult.e1) = 1
    /\ Len(callResult.e2) = 2

\* The nodes of a document whose parent is no node of the document.
Orphans(doc) ==
    {i \in DOMAIN doc : doc[i].id \notin {"0", "1"} /\ doc[i].parent \notin Ids(doc)}

\* C26: a document whose only defects are dangling parents is reported valid,
\* and in the repaired document every former orphan has parent "1" and every
\* other node is unchanged.
C26_DanglingParentsRepaired ==
    callResult.done =>
        /\ callResult.validation.valid
        /\ Len(callResult.xmlToLoad) = Len(callArgs.doc)
        /\ \A i \in DOMAIN callArgs.doc :
               callResult.xmlToLoad[i] =
                   IF i \in Orphans(callArgs.doc)
                   THEN [callArgs.doc[i] EXCEPT !.parent = "1"]
                   ELSE callArgs.doc[i]

C26_Witness ==
    /\ callResult.done
    /\ Cardinality(Orphans(callArgs.doc)) = 2
    /\ Len(callArgs.doc) = 5
    /\ callResult.validation.fixed # << >>
    /\ Orphans(callResult.xmlToLoad) = {}

\* C27: the original of an edit_diagram toolCallId is captured by the message
\* effect, from the current document, at the first increment with a complete
\* operation while a document exists; once captured it is neither overwritten
\* nor deleted; and every preview renders the pending complete operations
\* applied to that original.
C27_OriginalCapturedOnce ==
    [][/\ \A id \in EditCallIds :
            /\ editDiagramOriginalXmlRef[id] # << >>
               => editDiagramOriginalXmlRef'[id] = editDiagramOriginalXmlRef[id]
            /\ (editDiagramOriginalXmlRef[id] = << >>
                /\ editDiagramOriginalXmlRef'[id] # << >>)
               => /\ last'.op = "editeffect"
                  /\ chartXML # << >>
                  /\ editDiagramOriginalXmlRef'[id] = chartXML
       /\ (last'.op = "editeffect" /\ last'.branch \notin {"incomplete", "nochart"})
          => \E id \in EditCallIds : editDiagramOriginalXmlRef'[id] # << >>
       /\ (last'.op = "edittimer" /\ last'.hdc = "preview")
          => last'.arg = applyDiagramOperations(
                             editDiagramOriginalXmlRef[pendingEditRef.toolCallId],
                             pendingEditRef.operations).result]_allVars

\* C27 witness: a preview of two operations was rendered from the captured
\* original, which still holds node 2 and lacks the node the preview added.
C27_Witness ==
    /\ last.op = "edittimer" /\ last.hdc = "preview" /\ last.loaded
    /\ \E id \in EditCallIds :
           /\ editDiagramOriginalXmlRef[id] # << >>
           /\ lastProcessedOpCount[id] = 2
           /\ \E i \in DOMAIN editDiagramOriginalXmlRef[id] :
                  editDiagramOriginalXmlRef[id][i].id = "2"
           /\ \A i \in DOMAIN editDiagramOriginalXmlRef[id] :
                  editDiagramOriginalXmlRef[id][i].id # "4"
    /\ \E i \in DOMAIN chartXML : chartXML[i].id = "4"

\* C28: an edit_diagram increment is skipped as unchanged exactly when the
\* number of its complete operations equals the recorded count, and when it
\* is skipped with no preview pending, the document shows the content of its
\* complete operations: the node of every parsable add or update.
C28_SkipOnlyWhenRendered ==
    [][/\ (last'.op = "editeffect" /\ last'.branch = "samecount")
          => \E id \in EditCallIds : lastProcessedOpCount[id] = Len(last'.arg)
       /\ (last'.op = "editeffect" /\ last'.branch \in {"scheduled", "coalesced", "final"})
          => \A id \in EditCallIds :
                 lastProcessedOpCount[id] # Len(pendingEditRef'.operations)
                 \/ last'.branch = "final"
       /\ (last'.op = "editeffect" /\ last'.branch = "samecount" /\ editTimers' = {})
          => \A i \in DOMAIN last'.arg :
                 (/\ last'.arg[i].operation.v \in {"add", "update"}
                  /\ last'.arg[i].new_xml.v.form \in {"ok", "raw"})
                 => \E j \in DOMAIN chartXML' :
                        chartXML'[j].id = last'.arg[i].cell_id.v]_allVars


\* The last message is from the assistant and the last of its tool parts failed.
LastToolPartInError(msgs) ==
    /\ msgs # << >>
    /\ msgs[Len(msgs)].role = "assistant"
    /\ \E i \in 1..Len(msgs[Len(msgs)].parts) :
           /\ IsToolPart(msgs[Len(msgs)].parts[i])
           /\ msgs[Len(msgs)].parts[i].state = "output-error"
           /\ \A j \in (i + 1)..Len(msgs[Len(msgs)].parts) :
                  ~IsToolPart(msgs[Len(msgs)].parts[j])

\* C29: automatic resubmission is considered (sendAutomaticallyWhen leaves
\* its no-error branch, and only then can return true) only when the last
\* message is an assistant message whose last tool part is in state
\* output-error; an error in an earlier tool part, an error in an earlier
\* message, a last message of another role or a message without tool part
\* never triggers a resubmit.
C29_OnlyLastToolPartCounts ==
    callResult.done
    => /\ callResult.verdict.mode # "noerror" => LastToolPartInError(callArgs.messages)
       /\ callResult.verdict.ret => callResult.verdict.mode # "noerror"

\* An earlier message ends in a failed tool call and the last message has a
\* failed tool call followed by a successful one: no resubmission.
C29_Witness ==
    /\ callResult.done
    /\ Len(callArgs.messages) = 2
    /\ LastToolPartInError(SubSeq(callArgs.messages, 1, 1))
    /\ callArgs.messages[2].role = "assistant"
    /\ callArgs.messages[2].parts = << Part("tool-edit_diagram", "output-error"),
                                       Part("tool-display_diagram", "output-available") >>
    /\ callArgs.auto = 0
    /\ ~callResult.verdict.ret
    /\ callResult.verdict.mode = "noerror"


\* C30: the retry and continuation state is reset on every user-initiated
\* message and on every error-free completion: a send started by the user
\* (the form, regenerate, the edit of a message, improve with suggestions)
\* leaves both counters at 0 and the partial XML empty, and an evaluation of
\* sendAutomaticallyWhen that finds no tool error does the same and returns
\* false.
C30_ResetOnUserSendAndCleanFinish ==
    [][/\ (/\ last'.op \in {"onFormSubmit", "handleRegenerate", "handleEditMessage",
                            "handleImproveWithSuggestions"}
           /\ last'.branch = "sent")
          => /\ autoRetryCountRef' = 0
             /\ continuationRetryCountRef' = 0
             /\ ~partialXmlRef'
       /\ (last'.op = "sendAutomaticallyWhen" /\ ~hasToolErrors(messages'))
          => /\ autoRetryCountRef' = 0
             /\ continuationRetryCountRef' = 0
             /\ ~partialXmlRef'
             /\ last'.branch = "false"
             /\ status' = "ready"]_allVars


\* C31: automatic resubmission terminates: after a message of the user, when
\* every following response ends with its last tool part in output-error,
\* sendAutomaticallyWhen returns false after at most 5 automatic
\* resubmissions (3 regular plus 2 continuation), whatever the tool handler
\* does to the partial XML between the evaluations.
C31_ResubmissionTerminates ==
    /\ [](callResult.resubmissions <= MAX_AUTO_RETRY_COUNT + MAX_CONTINUATION_RETRY_COUNT)
    /\ [](callResult.resubmissions <= 5)
    /\ (IsProcessing ~> (callResult.done /\ status = "ready"))

\* The fifth resubmission, in regular mode, after continuation retries.
C31_Witness ==
    /\ callResult.resubmissions = 5
    /\ ~callResult.done
    /\ autoRetryCountRef = MAX_AUTO_RETRY_COUNT
    /\ continuationRetryCountRef = MAX_CONTINUATION_RETRY_COUNT
    /\ last.op = "sendAutomaticallyWhen" /\ last.branch = "true" /\ last.outcome = "regular"


\* C32: regenerating or editing at user message index i, when its snapshot
\* exists and the chat is idle, restores the diagram to the snapshot saved at
\* i, removes every snapshot with a key greater than i and keeps the one at i,
\* truncates the message list to its first i messages, and resends with xml
\* equal to the snapshot at i and previousXml equal to the snapshot with the
\* largest key below i, or empty when there is none.
C32_ResendFromSnapshot ==
    [][(last'.op \in {"handleRegenerate", "handleEditMessage"} /\ last'.branch = "sent")
       => \A i \in {Len(messages') - 1} :
              /\ ~IsProcessing
              /\ i < Len(messages) /\ messages[i + 1].role = "user"
              /\ i \in DOMAIN xmlSnapshots
              /\ chartXML' = xmlSnapshots[i]
              /\ DOMAIN xmlSnapshots' = {k \in DOMAIN xmlSnapshots : k <= i}
              /\ \A k \in DOMAIN xmlSnapshots' : xmlSnapshots'[k] = xmlSnapshots[k]
              /\ SubSeq(messages', 1, i) = SubSeq(messages, 1, i)
              /\ messages'[i + 1].role = "user"
              /\ status' = "submitted"
              /\ last'.arg[1] = xmlSnapshots[i]
              /\ \/ /\ \A k \in DOMAIN xmlSnapshots : k >= i
                    /\ last'.arg[2] = << >>
                 \/ \E k \in DOMAIN xmlSnapshots :
                        /\ k < i
                        /\ \A j \in DOMAIN xmlSnapshots : j < i => j <= k
                        /\ last'.arg[2] = xmlSnapshots[k]]_allVars

\* An edit of the second user message, at index 2: the diagram is back at its
\* snapshot, previousXml is the snapshot of the first message, another
\* document, and the list ends with the message that was sent again.
C32_Witness ==
    /\ last.op = "handleEditMessage" /\ last.branch = "sent"
    /\ Len(messages) = 3
    /\ DOMAIN xmlSnapshots = {0, 2}
    /\ chartXML = xmlSnapshots[2]
    /\ last.arg[1] = xmlSnapshots[2] /\ last.arg[2] = xmlSnapshots[0]
    /\ xmlSnapshots[0] # xmlSnapshots[2]


\* C33: regenerate and edit-message are no-ops when they cannot proceed: when
\* no user message precedes the assistant message, the target is not a user
\* message, or no XML snapshot is stored for the index of the user message,
\* the message list, the diagram, the snapshot map and the retry state are
\* unchanged and nothing is sent.
C33_NoOpWithoutTarget ==
    [][\A p \in {IF last'.op \in {"handleRegenerate", "handleEditMessage"}
                  THEN last'.arg[Len(last'.arg)] ELSE 0} :
          \A u \in {IF p = 0 THEN 0
                     ELSE IF last'.op = "handleRegenerate" THEN UserMessageBefore(messages, p)
                     ELSE IF messages[p].role = "user" THEN p ELSE 0} :
              (p # 0 /\ (u = 0 \/ (u - 1) \notin DOMAIN xmlSnapshots))
              => /\ messages' = messages
                 /\ chartXML' = chartXML
                 /\ xmlSnapshots' = xmlSnapshots
                 /\ UNCHANGED retryVars
                 /\ status' = status
                 /\ last'.branch # "sent"]_allVars

\* An edit was called on a user message that has no snapshot, in an idle
\* chat whose other user message has one.
C33_Witness ==
    /\ last.op = "handleEditMessage" /\ last.branch = "nosnapshot"
    /\ status = "error" /\ autoRetryCountRef = 1
    /\ Len(messages) >= 3
    /\ messages[last.arg[1]].role = "user"
    /\ (last.arg[1] - 1) \notin DOMAIN xmlSnapshots
    /\ xmlSnapshots # NoSnapshots


\* C34: after any sequence of form submits, regenerations, message edits,
\* improve-with-suggestions sends and new chats, every key of the XML snapshot
\* map is the index of a user message of the current message list, and every
\* user message that was sent has a snapshot stored at its index: the send
\* leaves a snapshot at the index of the message it sent, and a snapshot goes
\* only together with its message.
C34_SnapshotsMatchUserMessages ==
    [][/\ \A k \in DOMAIN xmlSnapshots' :
              k < Len(messages') /\ messages'[k + 1].role = "user"
       /\ (last'.branch = "sent" /\ last'.op \in {"onFormSubmit", "handleRegenerate",
                                                    "handleEditMessage",
                                                    "handleImproveWithSuggestions"})
          => (Len(messages') - 1) \in DOMAIN xmlSnapshots'
       /\ \A k \in DOMAIN xmlSnapshots :
              (k < Len(messages') /\ SubSeq(messages', 1, k + 1) = SubSeq(messages, 1, k + 1))
              => k \in DOMAIN xmlSnapshots']_allVars


C36_NoStalePreviewAfterReset ==
    [][(last.op \in {"handleNewChat", "reset"} /\ messages = << >> /\ last'.op = "timer")
       => (chartXML' = chartXML /\ ~last'.loaded)]_allVars


\* C37: deleteProvider and deleteModel never leave a dangling selection:
\* after the deletion of a provider or of a model, selectedModelId is cleared
\* if it referred to a deleted model and is unchanged otherwise, so that after
\* addProvider, addModel, deleteProvider and deleteModel a selectedModelId
\* that referred to a user model still refers to a model of the configuration
\* or is undefined.
C37_NoDanglingSelection ==
    callResult.done
    => /\ callResult.config.selectedModelId \subseteq ModelIdsOf(callResult.config) \cup {0}
       /\ callResult.config.selectedModelId =
              IF /\ callArgs.prev.selectedModelId # {}
                 /\ callArgs.prev.selectedModelId \subseteq
                        ModelIdsOf(callArgs.prev) \ ModelIdsOf(callResult.config)
              THEN {}
              ELSE callArgs.prev.selectedModelId

====
